---- MODULE Spec2Model ----
(***************************************************************************)
(* Model of the uC compiler back end: the IR generator (uc_code.py), the   *)
(* basic-block structures (uc_block.py) and the dataflow optimiser         *)
(* (uc_analysis.py).  A program (an AST annotated by the semantic          *)
(* analyser) is lowered to a control-flow graph per function, the          *)
(* instructions are numbered, reaching definitions and live variables are  *)
(* solved by worklists, constant propagation and dead-code elimination     *)
(* are applied and the optimised instruction list is emitted.              *)
(***************************************************************************)
EXTENDS Integers, Sequences, FiniteSets, TLC

(***************************************************************************)
(* Python's None, used for unset block links.  Block ids start at 1.       *)
(***************************************************************************)
None == 0

NoneNode == [k |-> "None"]

(***************************************************************************)
(* str.startswith                                                          *)
(***************************************************************************)
startswith(s, p) == Len(s) >= Len(p) /\ SubSeq(s, 1, Len(p)) = p

(***************************************************************************)
(* uCIR instructions.  A Python tuple (opcode, operand1, ..., target) is   *)
(* the record [op, a1, a2, a3, val, ps]: a1..a3 are the name operands      *)
(* inst[1]..inst[3] ("" when absent), val is the numeric operand (inst[1]  *)
(* of a literal, inst[2] of a global), ps the parameter temporaries of a   *)
(* define (the second components of inst[2]).                              *)
(***************************************************************************)
Inst(op, a1, a2, a3) ==
    [op |-> op, a1 |-> a1, a2 |-> a2, a3 |-> a3, val |-> 0, ps |-> <<>>]

LiteralInst(op, v, target) ==
    [op |-> op, a1 |-> "", a2 |-> target, a3 |-> "", val |-> v, ps |-> <<>>]

GlobalInst(op, name, v) ==
    [op |-> op, a1 |-> name, a2 |-> "", a3 |-> "", val |-> v, ps |-> <<>>]

DefineInst(op, name, params) ==
    [op |-> op, a1 |-> name, a2 |-> "", a3 |-> "", val |-> 0, ps |-> params]

(***************************************************************************)
(* uc_block.Block / BasicBlock / ConditionBlock                            *)
(***************************************************************************)
Block(label, kind) ==
    [label |-> label, kind |-> kind,
     instructions |-> <<>>, predecessors |-> <<>>, next_block |-> None,
     branch |-> None, taken |-> None, fall_through |-> None,
     numerated_code |-> <<>>,
     gen_defs |-> {}, kill_defs |-> {}, in_RD |-> {}, out_RD |-> {},
     used |-> {}, defined |-> {}, in_set |-> {}, out_set |-> {}]

BasicBlock(label) == Block(label, "BasicBlock")

ConditionBlock(label) == Block(label, "ConditionBlock")

(***************************************************************************)
(* AST nodes as the parser builds them and the semantic analyser annotates *)
(* them (uc_type).  Only int variables are used.                           *)
(***************************************************************************)
ArithOps == {"+", "-", "*", "/", "%"}

Constant(v) == [k |-> "Constant", type |-> "int", value |-> v, uc_type |-> "int"]

(* a character literal.  The generator keeps its value as a str; the model *)
(* writes the str values as negative numbers, apart from the ints of the   *)
(* programs, which are never negative                                      *)
CharConstant(c) == [k |-> "Constant", type |-> "char", value |-> -c, uc_type |-> "char"]

ID(n) == [k |-> "ID", name |-> n, uc_type |-> "int"]

(* a use of a variable of type t *)
TypedID(n, t) == [k |-> "ID", name |-> n, uc_type |-> t]

BinaryOp(op, l, r) ==
    [k |-> "BinaryOp", op |-> op, left |-> l, right |-> r,
     uc_type |-> IF op \in ArithOps THEN l.uc_type ELSE "bool"]

Cast(t, e) == [k |-> "Cast", type |-> t, value |-> e, uc_type |-> t]

(* a[pos] for a one-dimensional int array a *)
ArrayRef(n, pos) == [k |-> "ArrayRef", id |-> ID(n), pos |-> pos, uc_type |-> "int"]

(* a[pos1][pos2] for a two-dimensional int array a: the outer ArrayRef     *)
(* holds the last index and the ArrayRef of the first index as its id      *)
ArrayRef2(n, pos1, pos2) ==
    [k |-> "ArrayRef", id |-> [k |-> "ArrayRef", id |-> ID(n), pos |-> pos1,
                               uc_type |-> "int[]"],
     pos |-> pos2, uc_type |-> "int"]

FuncCall(f, t, args) ==
    [k |-> "FuncCall", declarator |-> [k |-> "ID", name |-> f, uc_type |-> t],
     arguments |-> args, uc_type |-> t]

Assignment(op, n, e) ==
    [k |-> "Assignment", op |-> op, lvalue |-> ID(n), rvalue |-> e]

PrintNode(e) == [k |-> "Print", expr |-> e]

If(c, s, e) == [k |-> "If", expr |-> c, ifstat |-> s, elsestat |-> e]

While(c, s) == [k |-> "While", expr |-> c, stat |-> s]

For(t1, t2, t3, s) == [k |-> "For", t1 |-> t1, t2 |-> t2, t3 |-> t3, stat |-> s]

Break == [k |-> "Break"]

AssertNode(c) == [k |-> "Assert", expr |-> c]

Return(e) == [k |-> "Return", expr |-> e]

Compound(ds, ss) == [k |-> "Compound", decls |-> ds, statmts |-> ss]

Decl(t, n, init) == [k |-> "Decl", type |-> t, name |-> n, init |-> init, dim |-> ""]

(* a declaration `t n[size];` without initialiser: an ArrayDecl over a VarDecl *)
ArrayDecl(t, n, size) ==
    [k |-> "Decl", type |-> t, name |-> n, init |-> NoneNode, dim |-> "_" \o ToString(size)]

(* a declaration `t n[d1][d2];` without initialiser: _get_dim gives the    *)
(* VarDecl the dimension string _d1_d2                                     *)
ArrayDecl2(t, n, d1, d2) ==
    [k |-> "Decl", type |-> t, name |-> n, init |-> NoneNode,
     dim |-> "_" \o ToString(d1) \o "_" \o ToString(d2)]

GlobalDecl(ds) == [k |-> "GlobalDecl", declaration |-> ds]

FuncDef(t, n, params, body) ==
    [k |-> "FuncDef", type |-> t, name |-> n, params |-> params,
     compound_statement |-> body]

Program(gdecls) == [k |-> "Program", gdecls |-> gdecls]

(* a float literal *)
FloatConstant(v) == [k |-> "Constant", type |-> "float", value |-> v, uc_type |-> "float"]

(* a Decl whose declarator is a FuncDecl: the prototype `t n(params);` *)
FuncDecl(t, n, params) == [k |-> "FuncDecl", type |-> t, name |-> n, params |-> params]

(***************************************************************************)
(* uc_code.binary_ops                                                      *)
(***************************************************************************)
binary_ops_code ==
    [o \in {"+", "-", "*", "/", "%", "<", "<=", ">", ">=", "==", "&&", "||", "!="} |->
        CASE o = "+" -> "add" [] o = "-" -> "sub" [] o = "*" -> "mul"
          [] o = "/" -> "div" [] o = "%" -> "mod" [] o = "<" -> "lt"
          [] o = "<=" -> "le" [] o = ">" -> "gt" [] o = ">=" -> "ge"
          [] o = "==" -> "eq" [] o = "&&" -> "and" [] o = "||" -> "or"
          [] o = "!=" -> "ne"]

(***************************************************************************)
(* CodeGenerator.  The generator object is the record g; every visit_X     *)
(* takes the generator and the node and returns the generator after the    *)
(* visit.  gen_location holds the gen_location annotation of the node      *)
(* visited last; err records an uncaught Python exception.                 *)
(***************************************************************************)
CodeGenerator ==
    [current_block |-> 1,
     blocks |-> <<BasicBlock("%global")>>,
     globals |-> <<>>,
     fname |-> "_glob_",
     versions |-> [n \in {"_glob_"} |-> 0],
     code |-> <<>>,
     text |-> <<>>,
     var_dim |-> <<>>,
     loop_pile |-> <<>>,
     return_register |-> "",
     gen_location |-> "",
     cfgs |-> <<>>,
     err |-> FALSE]

new_temp(g) ==
    LET v1 == IF g.fname \in DOMAIN g.versions THEN g.versions
              ELSE [n \in DOMAIN g.versions \cup {g.fname} |->
                       IF n = g.fname THEN 1 ELSE g.versions[n]]
    IN [name |-> "%" \o ToString(v1[g.fname]),
        g |-> [g EXCEPT !.versions = [v1 EXCEPT ![g.fname] = @ + 1]]]

new_name(g, nm) ==
    LET cur == IF nm \in DOMAIN g.versions THEN g.versions[nm] ELSE 0
        ext == [n \in DOMAIN g.versions \cup {nm} |->
                   IF n = nm THEN cur + 1 ELSE g.versions[n]]
    IN [name |-> IF cur > 0 THEN nm \o "." \o ToString(cur + 1) ELSE nm,
        g |-> [g EXCEPT !.versions = ext]]

new_text(g, typename) ==
    [name |-> "@." \o typename \o "." \o ToString(g.versions["_glob_"]),
     g |-> [g EXCEPT !.versions["_glob_"] = @ + 1]]

InSeq(x, s) == \E i \in 1..Len(s) : s[i] = x

_get_origin(g, name) == IF InSeq(name, g.globals) THEN "@" \o name ELSE "%" \o name

(* self.current_block.append(inst) *)
emit(g, inst) ==
    [g EXCEPT !.blocks[g.current_block].instructions = Append(@, inst)]

(* a freshly constructed block; its id is its position in g.blocks *)
new_block(g, blk) == [g EXCEPT !.blocks = Append(@, blk)]

add_pred(g, b, p) == [g EXCEPT !.blocks[b].predecessors = Append(@, p)]

set_link(g, b, f, target) == [g EXCEPT !.blocks[b][f] = target]

(* self.current_block.<f> = target *)
link(g, f, target) == set_link(g, g.current_block, f, target)

(* b.predecessors.append(self.current_block) *)
pred_current(g, b) == add_pred(g, b, g.current_block)

(* self.current_block = b *)
enter(g, b) == [g EXCEPT !.current_block = b]

(* the cbranch on the location of the expression just visited *)
emit_cbranch(g, taken, fall_through) ==
    emit(g, Inst("cbranch", g.gen_location, taken, fall_through))

(* a freshly named block: name = self.new_name(nm); block = <kind>(name) *)
named_block(g, nm, kind) ==
    LET n == new_name(g, nm)
    IN [g |-> new_block(n.g, IF kind = "ConditionBlock"
                             THEN ConditionBlock(n.name)
                             ELSE BasicBlock(n.name)),
        name |-> n.name,
        block |-> Len(g.blocks) + 1]

RECURSIVE visit(_, _)
RECURSIVE visit_list(_, _)

(* the rest of a loop over children: an exception raised by the child just *)
(* visited ends the loop                                                   *)
visit_rest(g1, nodes) == IF g1.err THEN g1 ELSE visit_list(g1, nodes)

(* for child in nodes: self.visit(child) *)
visit_list(g, nodes) ==
    IF Len(nodes) = 0 THEN g ELSE visit_rest(visit(g, Head(nodes)), Tail(nodes))

visit_Constant(g, node) ==
    LET t == new_temp(g)
    IN [emit(t.g, LiteralInst("literal_" \o node.type, node.value, t.name))
            EXCEPT !.gen_location = t.name]

visit_ID(g, node) ==
    LET t == new_temp(g)
        source == _get_origin(g, node.name)
    IN [emit(t.g, Inst("load_" \o node.uc_type, source, t.name, ""))
            EXCEPT !.gen_location = t.name]

visit_BinaryOp(g, node) ==
    LET g1 == visit(g, node.left)
        g2 == visit(g1, node.right)
        t == new_temp(g2)
        opcode == binary_ops_code[node.op] \o "_" \o node.left.uc_type
    IN [emit(t.g, Inst(opcode, g1.gen_location, g2.gen_location, t.name))
            EXCEPT !.gen_location = t.name]

visit_Cast(g, node) ==
    LET g1 == visit(g, node.value)
        t == new_temp(g1)
        inst == IF node.type = "int" THEN Inst("fptosi", g1.gen_location, t.name, "")
                ELSE Inst("sitofp", g1.gen_location, t.name, "")
    IN [emit(t.g, inst) EXCEPT !.gen_location = t.name]

RECURSIVE _get_name(_)
(* _get_name of an ArrayRef: dive through id down to the ID *)
_get_name(node) == IF node.k = "ID" THEN node.name ELSE _get_name(node.id)

RECURSIVE split(_, _)
(* str.split(sep) for a separator of one character *)
split(str, sep) ==
    LET hits == {i \in 1..Len(str) : SubSeq(str, i, i) = sep}
        first == CHOOSE i \in hits : \A j \in hits : i <= j
    IN IF hits = {} THEN <<str>>
       ELSE <<SubSeq(str, 1, first - 1)>> \o split(SubSeq(str, first + 1, Len(str)), sep)

RECURSIVE int(_)
(* int(str) for a string of decimal digits *)
int(str) ==
    LET digit == CHOOSE d \in 0..9 : ToString(d) = SubSeq(str, Len(str), Len(str))
    IN IF Len(str) = 1 THEN digit ELSE int(SubSeq(str, 1, Len(str) - 1)) * 10 + digit

(* the one-dimensional case *)
arrayref_one(g, node, name) ==
    LET g1 == visit(g, node.pos)
        index == g1.gen_location
        location == new_temp(g1)
        g2 == emit(location.g, Inst("elem_int", name, index, location.name))
        value == new_temp(g2)
    IN [emit(value.g, Inst("load_" \o node.uc_type \o "_*", location.name, value.name, ""))
            EXCEPT !.gen_location = value.name]

(* the instructions of one round of `while isinstance(aux, ArrayRef)` *)
arrayref_term(g1, dims, i, offset, produtorio) ==
    LET pos == g1.gen_location
        dim == new_temp(g1)
        termo == new_temp(dim.g)
        g2 == emit(termo.g, Inst("mul_int", pos, produtorio, termo.name))
        g3 == emit(g2, Inst("add_int", offset, termo.name, offset))
        (* dims[i]: a negative i counts from the end of the list *)
        at == IF i >= 0 THEN i + 1 ELSE Len(dims) + i + 1
    IN IF at < 1 \/ at > Len(dims) THEN [g3 EXCEPT !.err = TRUE]
       ELSE emit(emit(g3, LiteralInst("literal_int", int(dims[at]), dim.name)),
                 Inst("mul_int", dim.name, produtorio, produtorio))

RECURSIVE arrayref_loop(_, _, _, _, _, _)
(* aux = node; while isinstance(aux, ArrayRef): ...; aux = aux.id; i -= 1 *)
arrayref_loop(g, aux, dims, i, offset, produtorio) ==
    IF g.err \/ aux.k # "ArrayRef" THEN g
    ELSE arrayref_loop(arrayref_term(visit(g, aux.pos), dims, i, offset, produtorio),
                       aux.id, dims, i - 1, offset, produtorio)

(* elem and load after the loop *)
arrayref_elem(g3, node, name, offset) ==
    IF g3.err THEN g3
    ELSE LET location == new_temp(g3)
             g4 == emit(location.g, Inst("elem_" \o node.uc_type, name, offset, location.name))
             value == new_temp(g4)
         IN [emit(value.g, Inst("load_" \o node.uc_type \o "_*", location.name,
                                value.name, ""))
                EXCEPT !.gen_location = value.name]

(* caso multi-dimensional *)
arrayref_multi(g, node, nm, name) ==
    IF nm \notin DOMAIN g.var_dim
    THEN (* self.var_dim[nm] raises KeyError *)
         [g EXCEPT !.err = TRUE]
    ELSE LET dims == Tail(split(g.var_dim[nm], "_"))
             offset == new_temp(g)
             g1 == emit(offset.g, LiteralInst("literal_int", 0, offset.name))
             produtorio == new_temp(g1)
             g2 == emit(produtorio.g, LiteralInst("literal_int", 1, produtorio.name))
         IN arrayref_elem(arrayref_loop(g2, node, dims, Len(dims) - 1, offset.name,
                                        produtorio.name),
                          node, name, offset.name)

visit_ArrayRef(g, node) ==
    IF node.id.k # "ArrayRef"
    THEN arrayref_one(g, node, _get_origin(g, _get_name(node)))
    ELSE arrayref_multi(g, node, _get_name(node), _get_origin(g, _get_name(node)))

visit_Print(g, node) ==
    LET g1 == visit(g, node.expr)
    IN emit(g1, Inst("print_" \o node.expr.uc_type, g1.gen_location, "", ""))

RECURSIVE visit_args(_, _)
(* the loop over node.arguments.exprs of visit_FuncCall *)
visit_args(g, args) ==
    IF Len(args) = 0 THEN g
    ELSE LET g1 == visit(g, Head(args))
         IN visit_args(emit(g1, Inst("param_" \o Head(args).uc_type, g1.gen_location, "", "")),
                       Tail(args))

visit_FuncCall(g, node) ==
    IF Len(node.arguments) = 0
    THEN (* node.arguments is None: node.arguments.uc_type raises *)
         [g EXCEPT !.err = TRUE]
    ELSE LET g1 == visit_args(g, node.arguments)
             res == new_temp(g1)
         IN [emit(res.g, Inst("call_" \o node.declarator.uc_type,
                              "@" \o node.declarator.name, res.name, ""))
                EXCEPT !.gen_location = res.name]

visit_Assignment(g, node) ==
    LET g1 == visit(g, node.rvalue)
        var == _get_origin(g1, node.lvalue.name)
    IN IF node.op = "="
       THEN emit(g1, Inst("store_" \o node.rvalue.uc_type, g1.gen_location, var, ""))
       ELSE LET g2 == visit(g1, node.lvalue)
            IN emit(g2, Inst(binary_ops_code[SubSeq(node.op, 1, 1)] \o "_" \o node.rvalue.uc_type,
                             g2.gen_location, g1.gen_location, var))

visit_Return(g, node) ==
    IF node.expr.k # "None"
    THEN LET g1 == visit(g, node.expr)
         IN emit(g1, Inst("store_" \o node.expr.uc_type, g1.gen_location,
                          g1.return_register, ""))
    ELSE g

(* a break that leaves every enclosing loop: the bottom of the stack *)
visit_Break_outermost(g, node) ==
    emit(g, Inst("jump", "%" \o g.loop_pile[1], "", ""))

visit_Break(g, node) ==
    emit(g, Inst("jump", "%" \o g.loop_pile[Len(g.loop_pile)], "", ""))

visit_Compound(g, node) == visit_rest(visit_list(g, node.decls), node.statmts)

visit_VarDecl(g, node) ==
    LET _varname == node.name
    IN IF g.current_block = None
       THEN (* self.current_block.append / .label on None raises *)
            [g EXCEPT !.err = TRUE]
       ELSE IF node.init.k = "None"
       THEN [emit(g, Inst("alloc_" \o node.type \o node.dim, "%" \o _varname, "", ""))
                EXCEPT !.var_dim = [n \in DOMAIN g.var_dim \cup {_varname} |->
                                       IF n = _varname THEN node.dim ELSE g.var_dim[n]]]
       ELSE LET typename == node.init.uc_type
            IN IF g.blocks[g.current_block].label = "%global"
               THEN [g EXCEPT !.text = Append(@, GlobalInst("global_" \o typename,
                                                  "@" \o _varname, node.init.value)),
                              !.globals = Append(@, _varname)]
               ELSE LET g1 == visit(g, node.init)
                        g2 == emit(g1, Inst("alloc_" \o typename, "%" \o _varname, "", ""))
                    IN emit(g2, Inst("store_" \o typename, g1.gen_location,
                                     "%" \o _varname, ""))

visit_Decl(g, node) == visit_VarDecl(g, node)

visit_GlobalDecl(g, node) == visit_list(g, node.declaration)

RECURSIVE visit_ParamList(_, _)
(* returns the generator with the pair <<text, code>> in gen_params *)
visit_ParamList(g, params) ==
    IF Len(params) = 0 THEN [g |-> g, text |-> <<>>, code |-> <<>>]
    ELSE LET decl == Head(params)
             tgt == new_temp(g)
             name == "%" \o decl.name
             rest == visit_ParamList(tgt.g, Tail(params))
         IN [g |-> rest.g,
             text |-> <<tgt.name>> \o rest.text,
             code |-> <<Inst("alloc_" \o decl.type, name, "", ""),
                        Inst("store_" \o decl.type, tgt.name, name, "")>> \o rest.code]

visit_FuncDecl(g, node) == visit_ParamList(g, node.params)

(* setup do bloco de retorno e statement de retorno *)
funcdef_return(g9, target, node) ==
    LET return_block == Len(g9.blocks)
        g10 == link(pred_current(g9, return_block), "branch", return_block)
        g11 == [g10 EXCEPT !.blocks[return_block].instructions =
                   @ \o <<Inst("exit:", "", "", ""),
                          IF node.type # "void"
                          THEN Inst("return_" \o node.type, target, "", "")
                          ELSE Inst("return_void", "", "", "")>>]
        g12 == link(link(g11, "next_block", return_block), "taken", return_block)
    IN enter(g12, None)

(* jump para o bloco de retorno *)
funcdef_exit(g7, target, node) ==
    IF g7.err THEN g7
    ELSE funcdef_return(new_block(emit(g7, Inst("jump", "%exit", "", "")),
                                  BasicBlock("%exit")),
                        target, node)

(* registrador com valor de retorno da funcao; visitar corpo da funcao *)
funcdef_body(g5, node) ==
    LET tg == new_temp(g5)
        g6 == IF node.type # "void"
              THEN emit([tg.g EXCEPT !.return_register = tg.name],
                        Inst("alloc_" \o node.type, tg.name, "", ""))
              ELSE g5
    IN funcdef_exit(visit(g6, node.compound_statement), tg.name, node)

(* the define and entry instructions and the code of the parameters *)
funcdef_define(fd, cfg, node) ==
    LET g4 == emit(emit(fd.g, DefineInst("define_" \o node.type, "@" \o node.name,
                                         fd.text)),
                   Inst("entry", "", "", ""))
    IN funcdef_body([g4 EXCEPT !.blocks[cfg].instructions = @ \o fd.code], node)

(* inicializar blocos para construcao da CFG da funcao; atualiza o escopo *)
funcdef_entry(g1, cfg, node) ==
    LET g2 == IF g1.current_block # None
              THEN link(pred_current(g1, cfg), "next_block", cfg)
              ELSE g1
        g3 == [g2 EXCEPT !.current_block = cfg,
                         !.fname = "_" \o node.name \o "_",
                         !.cfgs = Append(@, cfg)]
    IN funcdef_define(visit_FuncDecl(g3, node), cfg, node)

visit_FuncDef(g, node) ==
    funcdef_entry(new_block(g, BasicBlock("%" \o node.name)), Len(g.blocks) + 1, node)

(* setup do bloco end *)
if_end(s11, b) ==
    emit(enter(link(s11, "next_block", b.end_block), b.end_block),
         Inst(b.end_name \o ":", "", "", ""))

(* the end of the else block: the jump to if.end *)
if_else_end(e3, b) ==
    IF e3.err THEN e3
    ELSE LET e4 == emit(e3, Inst("jump", "%" \o b.end_name, "", ""))
         IN if_end(pred_current(link(e4, "branch", b.end_block), b.end_block), b)

(* setup do bloco else, or the fall through to if.end when there is none *)
if_else(s10, b, node) ==
    IF b.hasElse
    THEN LET e1 == add_pred(set_link(s10, b.if_block, "fall_through", b.else_block),
                            b.else_block, b.if_block)
             e2 == enter(link(e1, "next_block", b.else_block), b.else_block)
         IN if_else_end(visit(emit(e2, Inst(b.else_name \o ":", "", "", "")),
                              node.elsestat), b)
    ELSE if_end(set_link(s10, b.if_block, "fall_through", b.end_block), b)

(* the end of the then block: the jump to if.end *)
if_then_end(s8, b, node) ==
    IF s8.err THEN s8
    ELSE LET s9 == emit(s8, Inst("jump", "%" \o b.end_name, "", ""))
         IN if_else(pred_current(link(s9, "branch", b.end_block), b.end_block),
                    b, node)

(* the cbranch of the condition; setup do bloco then *)
if_then(s4, b, node) ==
    IF s4.err THEN s4
    ELSE LET s5 == emit_cbranch(s4, "%" \o b.then_name,
                                IF b.hasElse THEN "%" \o b.else_name
                                             ELSE "%" \o b.end_name)
             s6 == pred_current(set_link(s5, b.if_block, "taken", b.then_block),
                                b.then_block)
             s7 == enter(link(s6, "next_block", b.then_block), b.then_block)
         IN if_then_end(visit(emit(s7, Inst(b.then_name \o ":", "", "", "")),
                              node.ifstat), b, node)

(* setup bloco if *)
if_cond(b, node) ==
    LET s1 == pred_current(link(b.g, "branch", b.if_block), b.if_block)
        s2 == link(emit(s1, Inst("jump", "%" \o b.if_name, "", "")),
                   "next_block", b.if_block)
        s3 == emit(enter(s2, b.if_block), Inst(b.if_name \o ":", "", "", ""))
    IN if_then(visit(s3, node.expr), b, node)

(* the names and blocks of an if: if, then, else (when present), if.end *)
if_blocks4(i, t, e, d, hasElse) ==
    [g |-> d.g, hasElse |-> hasElse,
     if_name |-> i.name, if_block |-> i.block,
     then_name |-> t.name, then_block |-> t.block,
     else_name |-> e.name, else_block |-> e.block,
     end_name |-> d.name, end_block |-> d.block]

if_blocks3(i, t, e, hasElse) ==
    if_blocks4(i, t, e, named_block(e.g, "if.end", "BasicBlock"), hasElse)

if_blocks2(i, t, hasElse) ==
    if_blocks3(i, t,
               IF hasElse THEN named_block(t.g, "else", "BasicBlock")
                          ELSE [g |-> t.g, name |-> "", block |-> t.block],
               hasElse)

if_blocks1(i, hasElse) == if_blocks2(i, named_block(i.g, "then", "BasicBlock"), hasElse)

if_blocks(g, hasElse) == if_blocks1(named_block(g, "if", "ConditionBlock"), hasElse)

visit_If(g, node) == if_cond(if_blocks(g, node.elsestat.k # "None"), node)

(* the end of the loop body: the jump back to the condition; setup end *)
while_end(s10, b) ==
    IF s10.err THEN s10
    ELSE LET s11 == [emit(s10, Inst("jump", "%" \o b.cond_name, "", ""))
                        EXCEPT !.loop_pile = SubSeq(@, 1, Len(@) - 1)]
             s12 == add_pred(s11, b.end_block, b.cond_block)
             s13 == enter(link(s12, "next_block", b.end_block), b.end_block)
         IN emit(s13, Inst(b.end_name \o ":", "", "", ""))

(* the cbranch of the condition; setup corpo *)
while_stat(s6, b, node) ==
    IF s6.err THEN s6
    ELSE LET s7 == emit_cbranch(s6, "%" \o b.stat_name, "%" \o b.end_name)
             s8 == set_link(add_pred(s7, b.stat_block, b.cond_block),
                            b.stat_block, "branch", b.cond_block)
             s9 == [link(s8, "next_block", b.stat_block)
                       EXCEPT !.current_block = b.stat_block,
                              !.loop_pile = Append(@, b.end_name)]
         IN while_end(visit(emit(s9, Inst(b.stat_name \o ":", "", "", "")),
                            node.stat), b)

(* setup condicao *)
while_cond(b, node) ==
    LET s1 == add_pred(pred_current(b.g, b.cond_block), b.cond_block, b.stat_block)
        s2 == set_link(set_link(s1, b.cond_block, "taken", b.stat_block),
                       b.cond_block, "fall_through", b.end_block)
        s3 == link(s2, "branch", b.cond_block)
        s4 == link(emit(s3, Inst("jump", "%" \o b.cond_name, "", "")),
                   "next_block", b.cond_block)
        s5 == emit(enter(s4, b.cond_block), Inst(b.cond_name \o ":", "", "", ""))
    IN while_stat(visit(s5, node.expr), b, node)

(* the names and blocks of a loop or an assert: condition, body, end *)
blocks3(c, s, e) ==
    [g |-> e.g,
     cond_name |-> c.name, cond_block |-> c.block,
     stat_name |-> s.name, stat_block |-> s.block,
     end_name |-> e.name, end_block |-> e.block]

blocks2(c, s, end_nm) == blocks3(c, s, named_block(s.g, end_nm, "BasicBlock"))

blocks1(c, stat_nm, end_nm) ==
    blocks2(c, named_block(c.g, stat_nm, "BasicBlock"), end_nm)

cond_stat_end(g, cond_nm, stat_nm, end_nm) ==
    blocks1(named_block(g, cond_nm, "ConditionBlock"), stat_nm, end_nm)

visit_While(g, node) ==
    while_cond(cond_stat_end(g, "while.cond", "while.stat", "while.end"), node)

(* the end of the increment: the jump back to the condition; final do for *)
for_end(s14, b) ==
    IF s14.err THEN s14
    ELSE LET s15 == emit(s14, Inst("jump", "%" \o b.cond_name, "", ""))
             s16 == add_pred(s15, b.end_block, b.cond_block)
             s17 == enter(link(s16, "next_block", b.end_block), b.end_block)
         IN emit(s17, Inst(b.end_name \o ":", "", "", ""))

(* the end of the loop body: the jump to the increment; visitar o incremento *)
for_inc(s9, b, node) ==
    IF s9.err THEN s9
    ELSE LET s10 == [emit(s9, Inst("jump", "%" \o b.inc_name, "", ""))
                        EXCEPT !.loop_pile = SubSeq(@, 1, Len(@) - 1)]
             s11 == link(s10, "branch", b.inc_block)
             s12 == set_link(pred_current(s11, b.inc_block),
                             b.inc_block, "branch", b.cond_block)
             s13 == enter(link(s12, "next_block", b.inc_block), b.inc_block)
         IN for_end(visit(emit(s13, Inst(b.inc_name \o ":", "", "", "")),
                          node.t3), b)

(* the cbranch of the condition; visitar o corpo do for *)
for_stat(s5, b, node) ==
    IF s5.err THEN s5
    ELSE LET s6 == emit_cbranch(s5, "%" \o b.stat_name, "%" \o b.end_name)
             s7 == add_pred(s6, b.stat_block, b.cond_block)
             s8 == [link(s7, "next_block", b.stat_block)
                       EXCEPT !.current_block = b.stat_block,
                              !.loop_pile = Append(@, b.end_name)]
         IN for_inc(visit(emit(s8, Inst(b.stat_name \o ":", "", "", "")),
                          node.stat), b, node)

(* the jump that ends the initialisation; setup da condicao *)
for_cond(s0, b, node) ==
    IF s0.err THEN s0
    ELSE LET s1 == emit(s0, Inst("jump", "%" \o b.cond_name, "", ""))
             s2 == add_pred(pred_current(link(s1, "branch", b.cond_block),
                                         b.cond_block),
                            b.cond_block, b.inc_block)
             s3 == set_link(set_link(s2, b.cond_block, "taken", b.stat_block),
                            b.cond_block, "fall_through", b.end_block)
             s4 == enter(link(s3, "next_block", b.cond_block), b.cond_block)
         IN for_stat(visit(emit(s4, Inst(b.cond_name \o ":", "", "", "")),
                           node.t2), b, node)

(* visitar inicializacao *)
for_init(b, node) == for_cond(visit(b.g, node.t1), b, node)

(* the names and blocks of a for: condition, body, increment, end *)
for_blocks4(c, s, i, e) ==
    [g |-> e.g,
     cond_name |-> c.name, cond_block |-> c.block,
     stat_name |-> s.name, stat_block |-> s.block,
     inc_name |-> i.name, inc_block |-> i.block,
     end_name |-> e.name, end_block |-> e.block]

for_blocks3(c, s, i) == for_blocks4(c, s, i, named_block(i.g, "for.end", "BasicBlock"))

for_blocks2(c, s) == for_blocks3(c, s, named_block(s.g, "for.inc", "BasicBlock"))

for_blocks1(c) == for_blocks2(c, named_block(c.g, "for.stat", "BasicBlock"))

for_blocks(g) == for_blocks1(named_block(g, "for.cond", "ConditionBlock"))

visit_For(g, node) == for_init(for_blocks(g), node)

(* setup do assert (the failing side), then setup do end; here the body    *)
(* block of the triple is assert.fail                                      *)
assert_fail(msg, b) ==
    LET s7 == [msg.g EXCEPT !.text = Append(@, Inst("global_string", msg.name,
                                                     "assertion_fail on", ""))]
        s8 == enter(link(s7, "next_block", b.stat_block), b.stat_block)
        s9 == emit(emit(emit(s8, Inst(b.stat_name \o ":", "", "", "")),
                        Inst("print_string", msg.name, "", "")),
                   Inst("jump", "%exit", "", ""))
        s10 == add_pred(add_pred(s9, b.stat_block, b.stat_block),
                        b.stat_block, b.cond_block)
        s11 == enter(link(s10, "next_block", b.end_block), b.end_block)
    IN emit(s11, Inst(b.end_name \o ":", "", "", ""))

(* setup condicao *)
assert_cond(b, node) ==
    LET s1 == link(pred_current(b.g, b.cond_block), "branch", b.cond_block)
        s2 == set_link(set_link(s1, b.cond_block, "taken", b.end_block),
                       b.cond_block, "fall_through", b.stat_block)
        s3 == enter(link(s2, "next_block", b.cond_block), b.cond_block)
        s5 == emit_cbranch(visit(s3, node.expr), "%" \o b.end_name, "%" \o b.stat_name)
    IN assert_fail(new_text(add_pred(s5, b.stat_block, b.cond_block), "str"), b)

visit_Assert(g, node) ==
    assert_cond(cond_stat_end(g, "assert", "assert.fail", "assert.end"), node)

visit(g, node) ==
    IF g.err THEN g
    ELSE CASE node.k = "Constant" -> visit_Constant(g, node)
           [] node.k = "ID" -> visit_ID(g, node)
           [] node.k = "BinaryOp" -> visit_BinaryOp(g, node)
           [] node.k = "Cast" -> visit_Cast(g, node)
           [] node.k = "ArrayRef" -> visit_ArrayRef(g, node)
           [] node.k = "FuncCall" -> visit_FuncCall(g, node)
           [] node.k = "Assignment" -> visit_Assignment(g, node)
           [] node.k = "Print" -> visit_Print(g, node)
           [] node.k = "If" -> visit_If(g, node)
           [] node.k = "While" -> visit_While(g, node)
           [] node.k = "For" -> visit_For(g, node)
           [] node.k = "Break" -> visit_Break(g, node)
           [] node.k = "Assert" -> visit_Assert(g, node)
           [] node.k = "Return" -> visit_Return(g, node)
           [] node.k = "Compound" -> visit_Compound(g, node)
           [] node.k = "Decl" -> visit_Decl(g, node)
           [] node.k = "GlobalDecl" -> visit_GlobalDecl(g, node)
           [] node.k = "FuncDef" -> visit_FuncDef(g, node)
           [] OTHER -> g

(***************************************************************************)
(* The blocks reachable through next_block, in order (the traversal of     *)
(* EmitBlocks.visit and of every `while bb is not None` loop).             *)
(***************************************************************************)
RECURSIVE Chain(_, _)
Chain(blocks, bb) ==
    IF bb = None THEN <<>> ELSE <<bb>> \o Chain(blocks, blocks[bb].next_block)

RECURSIVE Flatten(_)
Flatten(ss) == IF Len(ss) = 0 THEN <<>> ELSE Head(ss) \o Flatten(Tail(ss))

(* EmitBlocks: the instructions of the blocks of one function, in order *)
EmitBlocks(blocks, cfg) ==
    LET ch == Chain(blocks, cfg)
    IN Flatten([i \in 1..Len(ch) |-> blocks[ch[i]].instructions])

(* the emitted program: the globals, then the blocks of every function *)
program_code(g1) ==
    [g1 EXCEPT !.code = g1.text \o
        Flatten([i \in 1..Len(g1.cfgs) |-> EmitBlocks(g1.blocks, g1.cfgs[i])])]

visit_Program_code(g, node) == program_code(visit_list(g, node.gdecls))

(***************************************************************************)
(* DataFlow (uc_analysis.py)                                               *)
(***************************************************************************)
binary_ops ==
    <<"add_", "sub_", "mul_", "div_", "mod_", "lt_", "le_", "gt_", "ge_",
      "eq_", "and_", "or_", "ne_">>

(* for bin_op in binary_ops: if inst[0].startswith(bin_op) *)
is_binary_op(inst) == \E i \in 1..Len(binary_ops) : startswith(inst.op, binary_ops[i])

Range(s) == {s[i] : i \in 1..Len(s)}

Min(S) == CHOOSE x \in S : \A y \in S : x <= y

Max(S) == CHOOSE x \in S : \A y \in S : x >= y

(* the keys of a numerated_code dict, in insertion order *)
Keys(numerated_code) ==
    IF DOMAIN numerated_code = {} THEN <<>>
    ELSE [i \in 1..Cardinality(DOMAIN numerated_code) |->
             Min(DOMAIN numerated_code) + i - 1]

(* the elements of a set of numbers as an ascending list *)
SortedSeq(S) ==
    [i \in 1..Cardinality(S) |-> CHOOSE x \in S : Cardinality({y \in S : y < x}) = i - 1]

find_exit_block(blocks, cfg) ==
    LET ch == Chain(blocks, cfg)
        hits == {i \in 1..Len(ch) : blocks[ch[i]].label = "%exit"}
    IN IF hits = {} THEN None ELSE ch[Min(hits)]

(* defined_names with the index of an elem filed under its index operand   *)
defined_names_elem_index(inst) ==
    (IF startswith(inst.op, "literal") THEN <<inst.a2>>
     ELSE IF startswith(inst.op, "store") THEN <<inst.a2>>
     ELSE IF startswith(inst.op, "load") THEN <<inst.a2>>
     ELSE IF startswith(inst.op, "call") THEN <<inst.a2>>
     ELSE IF startswith(inst.op, "not_") THEN <<inst.a2>>
     ELSE IF startswith(inst.op, "sitofp") THEN <<inst.a2>>
     ELSE IF startswith(inst.op, "fptosi") THEN <<inst.a2>>
     ELSE IF startswith(inst.op, "elem") THEN <<inst.a2>>
     ELSE IF startswith(inst.op, "define") THEN inst.ps
     ELSE <<>>)
    \o (IF is_binary_op(inst) THEN <<inst.a3>> ELSE <<>>)

(* the names whose def-list number_instructions extends for one           *)
(* instruction, in the order of the add_to_defs calls                      *)
defined_names(inst) ==
    (IF startswith(inst.op, "literal") THEN <<inst.a2>>
     ELSE IF startswith(inst.op, "store") THEN <<inst.a2>>
     ELSE IF startswith(inst.op, "load") THEN <<inst.a2>>
     ELSE IF startswith(inst.op, "call") THEN <<inst.a2>>
     ELSE IF startswith(inst.op, "not_") THEN <<inst.a2>>
     ELSE IF startswith(inst.op, "sitofp") THEN <<inst.a2>>
     ELSE IF startswith(inst.op, "fptosi") THEN <<inst.a2>>
     ELSE IF startswith(inst.op, "elem") THEN <<inst.a3>>
     ELSE IF startswith(inst.op, "define") THEN inst.ps
     ELSE <<>>)
    \o (IF is_binary_op(inst) THEN <<inst.a3>> ELSE <<>>)

(* self.defs after the loop of number_instructions: add_to_defs appends    *)
(* the index of every instruction to the list of each name it defines, and *)
(* the indices are visited in ascending order                              *)
number_defs(code) ==
    LET names == UNION {Range(defined_names(code[i].inst)) : i \in 1..Len(code)}
    IN [n \in names |->
           SortedSeq({i \in 1..Len(code) : n \in Range(defined_names(code[i].inst))})]

(* the pairs <<block, instruction>> of a function in next_block order *)
RECURSIVE chain_instructions(_, _)
chain_instructions(blocks, ch) ==
    IF Len(ch) = 0 THEN <<>>
    ELSE [i \in 1..Len(blocks[Head(ch)].instructions) |->
             [bb |-> Head(ch), inst |-> blocks[Head(ch)].instructions[i]]]
         \o chain_instructions(blocks, Tail(ch))

(* number_instructions: the record of bb.numerated_code for every block,  *)
(* self.labeled_code, self.defs and self.index after the call              *)
number_instructions(blocks, cfg) ==
    LET numbered == chain_instructions(blocks, Chain(blocks, cfg))
        onchain == Range(Chain(blocks, cfg))
    IN [blocks |-> [b \in 1..Len(blocks) |->
                       IF b \in onchain
                       THEN [blocks[b] EXCEPT !.numerated_code =
                               [i \in {j \in 1..Len(numbered) : numbered[j].bb = b} |->
                                   numbered[i].inst]]
                       ELSE blocks[b]],
        labeled_code |-> [i \in 1..Len(numbered) |-> numbered[i].inst],
        defs |-> number_defs(numbered),
        index |-> Len(numbered) + 1]

(* list.copy() followed by list.remove(index) *)
copy_remove(l, index) == Range(l) \ {index}

instruction_gen_kill(defs, inst, index) ==
    LET first == IF startswith(inst.op, "store") \/ startswith(inst.op, "literal")
                    \/ startswith(inst.op, "load") \/ startswith(inst.op, "call")
                    \/ startswith(inst.op, "not_") \/ startswith(inst.op, "sitofp")
                    \/ startswith(inst.op, "fptosi")
                 THEN [gen |-> {index}, kill |-> copy_remove(defs[inst.a2], index)]
                 ELSE [gen |-> {}, kill |-> {}]
    IN IF is_binary_op(inst)
       THEN [gen |-> {index}, kill |-> copy_remove(defs[inst.a3], index)]
       ELSE first

(* gen_defs and kill_defs of a block after the loop of computeRD_gen_kill   *)
(* has called update_block_gen_kill_RD for its instructions in key order:  *)
(* the first generating instruction installs its gen and kill lists, every *)
(* later one drops what it kills from gen_defs, then adds its own index,   *)
(* and extends kill_defs                                                   *)
update_block_gen_kill_RD(defs, block) ==
    LET keys == DOMAIN block.numerated_code
        gk == [k \in keys |-> instruction_gen_kill(defs, block.numerated_code[k], k)]
        acting == {k \in keys : gk[k].gen # {} \/ gk[k].kill # {}}
    IN [block EXCEPT
          !.gen_defs = UNION {{i \in gk[k].gen :
                                 \A l \in acting : l > k => i \notin gk[l].kill} :
                              k \in acting},
          !.kill_defs = UNION {gk[k].kill : k \in acting}]

computeRD_gen_kill(blocks, defs, cfg) ==
    LET onchain == Range(Chain(blocks, cfg))
    IN [b \in 1..Len(blocks) |->
           IF b \in onchain THEN update_block_gen_kill_RD(defs, blocks[b]) ELSE blocks[b]]

(* one iteration of the worklist loop of computeRD_in_out on `block`:     *)
(* the block after the iteration and the blocks appended to `changed`      *)
RECURSIVE union_pred_out(_, _, _)
union_pred_out(blocks, in_RD, preds) ==
    IF Len(preds) = 0 THEN in_RD
    ELSE union_pred_out(blocks, in_RD \cup blocks[Head(preds)].out_RD, Tail(preds))

(* the iteration that puts the successors back on `changed` whether or not *)
(* out_RD changed                                                          *)
computeRD_in_out_step_always(blocks, b) ==
    LET block == blocks[b]
        in_RD == union_pred_out(blocks, block.in_RD, block.predecessors)
        out_RD == (in_RD \ block.kill_defs) \cup block.gen_defs
        succ == IF block.kind = "BasicBlock"
                THEN (IF block.branch # None THEN <<block.branch>>
                      ELSE IF block.next_block # None THEN <<block.next_block>>
                      ELSE <<>>)
                ELSE <<block.taken>> \o
                     (IF block.fall_through # None THEN <<block.fall_through>> ELSE <<>>)
    IN [block |-> [block EXCEPT !.in_RD = in_RD, !.out_RD = out_RD], appended |-> succ]

computeRD_in_out_step(blocks, b) ==
    LET block == blocks[b]
        in_RD == union_pred_out(blocks, block.in_RD, block.predecessors)
        old_out == block.out_RD
        out_RD == (in_RD \ block.kill_defs) \cup block.gen_defs
        succ == IF old_out = out_RD THEN <<>>
                ELSE IF block.kind = "BasicBlock"
                THEN (IF block.branch # None THEN <<block.branch>>
                      ELSE IF block.next_block # None THEN <<block.next_block>>
                      ELSE <<>>)
                ELSE <<block.taken>> \o
                     (IF block.fall_through # None THEN <<block.fall_through>> ELSE <<>>)
    IN [block |-> [block EXCEPT !.in_RD = in_RD, !.out_RD = out_RD], appended |-> succ]

(***************************************************************************)
(* check_constant_propagation.  current_value is the record                *)
(* [none, v]: none is TRUE for Python's None, else v is the value.         *)
(* `order` is the order in which the for loop meets the definitions of     *)
(* current_defs that are in self.defs[variable].                           *)
(***************************************************************************)
NoValue == [none |-> TRUE, v |-> 0]

SomeValue(v) == [none |-> FALSE, v |-> v]

RECURSIVE store_defs_loop(_, _, _)
(* for store_defs in self.defs[source]: the current_value at loop exit *)
store_defs_loop(labeled_code, current_value, store_defs) ==
    IF Len(store_defs) = 0 THEN current_value
    ELSE IF startswith(labeled_code[Head(store_defs)].op, "literal")
    THEN IF current_value.none
         THEN store_defs_loop(labeled_code, SomeValue(labeled_code[Head(store_defs)].val),
                              Tail(store_defs))
         ELSE IF current_value.v # labeled_code[Head(store_defs)].val
         THEN NoValue
         ELSE store_defs_loop(labeled_code, current_value, Tail(store_defs))
    ELSE NoValue

RECURSIVE definitions_loop(_, _, _, _)
definitions_loop(labeled_code, defs, current_value, order) ==
    IF Len(order) = 0 THEN current_value
    ELSE IF startswith(labeled_code[Head(order)].op, "store")
    THEN definitions_loop(labeled_code, defs,
             store_defs_loop(labeled_code, current_value,
                             defs[labeled_code[Head(order)].a1]),
             Tail(order))
    ELSE NoValue

check_constant_propagation(labeled_code, defs, order, variable) ==
    IF SubSeq(variable, 1, 1) = "@" THEN NoValue
    ELSE IF variable \notin DOMAIN defs THEN NoValue
    ELSE definitions_loop(labeled_code, defs, NoValue, order)

(* the orders in which a list built from a set can hold its elements *)
Orders(S) ==
    {f \in [1..Cardinality(S) -> S] : \A x \in S : \E i \in 1..Cardinality(S) : f[i] = x}

(* type(expr_value).__name__ of a propagated value: int for the value of  *)
(* literal_int, str for the value of literal_char (a negative number in    *)
(* the model); the programs have no float literal                          *)
type_name(v) == IF v < 0 THEN "str" ELSE "int"

(* the definitions met by the loop of check_constant_propagation *)
relevant_defs(defs, current_defs, variable) ==
    IF variable \in DOMAIN defs THEN current_defs \cap Range(defs[variable]) ELSE {}

(* LV use/def of one instruction (computeLV_use_def) *)
inst_used(inst) ==
    (IF startswith(inst.op, "store") THEN {inst.a1}
     ELSE IF startswith(inst.op, "literal") THEN {}
     ELSE IF startswith(inst.op, "load") THEN {inst.a1}
     ELSE IF startswith(inst.op, "call") THEN {inst.a1}
     ELSE IF startswith(inst.op, "elem") THEN {inst.a1, inst.a2}
     ELSE IF startswith(inst.op, "not_") THEN {inst.a1}
     ELSE {})
    \cup (IF is_binary_op(inst) THEN {inst.a1, inst.a2} ELSE {})
    \cup (IF startswith(inst.op, "print") THEN {inst.a1}
          ELSE IF startswith(inst.op, "sitofp") THEN {inst.a1}
          ELSE IF startswith(inst.op, "fptosi") THEN {inst.a1}
          ELSE IF startswith(inst.op, "return")
          THEN (IF inst.op # "return_void" THEN {inst.a1} ELSE {})
          ELSE IF startswith(inst.op, "param") THEN {inst.a1}
          ELSE IF startswith(inst.op, "cbranch") THEN {inst.a1}
          ELSE {})

inst_defined(inst) ==
    (IF startswith(inst.op, "store") THEN {inst.a2}
     ELSE IF startswith(inst.op, "literal") THEN {inst.a2}
     ELSE IF startswith(inst.op, "load") THEN {inst.a2}
     ELSE IF startswith(inst.op, "call") THEN {inst.a2}
     ELSE IF startswith(inst.op, "elem") THEN {inst.a3}
     ELSE IF startswith(inst.op, "not_") THEN {inst.a2}
     ELSE {})
    \cup (IF is_binary_op(inst) THEN {inst.a3} ELSE {})
    \cup (IF startswith(inst.op, "call") THEN {inst.a2} ELSE {})
    \cup (IF startswith(inst.op, "print") THEN {}
          ELSE IF startswith(inst.op, "sitofp") THEN {inst.a2}
          ELSE IF startswith(inst.op, "fptosi") THEN {inst.a2}
          ELSE {})

computeLV_use_def(blocks, cfg) ==
    LET onchain == Range(Chain(blocks, cfg))
    IN [b \in 1..Len(blocks) |->
           IF b \in onchain
           THEN [blocks[b] EXCEPT
                   !.used = @ \cup UNION {inst_used(blocks[b].numerated_code[i]) :
                                             i \in DOMAIN blocks[b].numerated_code},
                   !.defined = @ \cup UNION {inst_defined(blocks[b].numerated_code[i]) :
                                               i \in DOMAIN blocks[b].numerated_code}]
           ELSE blocks[b]]

(* one iteration of the worklist loop of computeLV_in_out on `block`;     *)
(* err when the successor link that is read is None                        *)
computeLV_in_out_step(blocks, global_variables, b) ==
    LET block == blocks[b]
        in_set == (block.out_set \ block.defined) \cup block.used
        err == /\ block.label # "%exit"
               /\ IF block.kind = "BasicBlock"
                  THEN block.branch = None /\ block.next_block = None
                  ELSE block.taken = None \/ block.fall_through = None
        out_set == IF block.label = "%exit" THEN Range(global_variables)
                   ELSE IF err THEN {}
                   ELSE IF block.kind = "BasicBlock"
                   THEN (IF block.branch # None THEN blocks[block.branch].in_set
                         ELSE blocks[block.next_block].in_set)
                   ELSE blocks[block.taken].in_set \cup blocks[block.fall_through].in_set
        same == block.out_set = out_set /\ block.in_set = in_set
    IN [block |-> [block EXCEPT !.in_set = in_set, !.out_set = out_set],
        appended |-> IF same THEN <<>> ELSE block.predecessors,
        err |-> err]

(* is_dead without the test of the opcode *)
is_dead_any_opcode(block, inst) ==
    \/ inst.a2 \notin block.out_set /\ inst.a2 \notin block.used
    \/ /\ is_binary_op(inst)
       /\ inst.a3 \notin block.out_set /\ inst.a3 \notin block.used

(* the test of deadcode_elimination on one numbered instruction *)
is_dead(block, inst) ==
    \/ /\ \/ startswith(inst.op, "store")
          \/ startswith(inst.op, "literal")
          \/ startswith(inst.op, "load")
       /\ inst.a2 \notin block.out_set /\ inst.a2 \notin block.used
    \/ /\ is_binary_op(inst)
       /\ inst.a3 \notin block.out_set /\ inst.a3 \notin block.used
    \/ /\ startswith(inst.op, "call")
       /\ inst.a2 \notin block.out_set /\ inst.a2 \notin block.used

(* deadcode_elimination that never marks a store *)
deadcode_elimination_no_stores(blocks, cfg) ==
    UNION {{key \in DOMAIN blocks[b].numerated_code :
               /\ ~startswith(blocks[b].numerated_code[key].op, "store")
               /\ is_dead(blocks[b], blocks[b].numerated_code[key])} :
           b \in Range(Chain(blocks, cfg))}

deadcode_elimination(blocks, cfg) ==
    UNION {{key \in DOMAIN blocks[b].numerated_code :
               is_dead(blocks[b], blocks[b].numerated_code[key])} :
           b \in Range(Chain(blocks, cfg))}

(* appendOptimizedCode putting the function in front of the list *)
appendOptimizedCode_in_front(code, labeled_code, dead_code) ==
    LET kept == SelectSeq([i \in 1..Len(labeled_code) |-> i],
                          LAMBDA key : key \notin dead_code)
    IN [i \in 1..Len(kept) |-> labeled_code[kept[i]]] \o code

appendOptimizedCode(code, labeled_code, dead_code) ==
    LET kept == SelectSeq([i \in 1..Len(labeled_code) |-> i],
                          LAMBDA key : key \notin dead_code)
    IN code \o [i \in 1..Len(kept) |-> labeled_code[kept[i]]]

(***************************************************************************)
(* The interpreter of the linear IR (uc_interpreter, an external           *)
(* collaborator of the compiler).  A machine holds the index of the next   *)
(* instruction, the index of the define of the running function, the       *)
(* locals and pointers of the running function, the globals, the pending   *)
(* call arguments, the stack of suspended callers, the printed lines and   *)
(* the value returned by main.                                             *)
(***************************************************************************)
lookup(m, name) == IF name \in DOMAIN m THEN m[name] ELSE 0

assign(m, name, v) ==
    IF name \in DOMAIN m THEN [m EXCEPT ![name] = v] ELSE m @@ (name :> v)

is_global(name) == startswith(name, "@")

read(m, name) == IF is_global(name) THEN lookup(m.glob, name) ELSE lookup(m.mem, name)

write(m, name, v) ==
    IF is_global(name) THEN [m EXCEPT !.glob = assign(@, name, v)]
    ELSE [m EXCEPT !.mem = assign(@, name, v)]

find_define(ir, name) ==
    LET hits == {i \in 1..Len(ir) : startswith(ir[i].op, "define") /\ ir[i].a1 = name}
    IN IF hits = {} THEN 0 ELSE Min(hits)

(* the instructions of the function whose define is at index fn *)
function_end(ir, fn) ==
    LET later == {i \in (fn + 1)..Len(ir) : startswith(ir[i].op, "define")}
    IN IF later = {} THEN Len(ir) ELSE Min(later) - 1

(* the index of the label a jump to `target` (%name) reaches, 0 if none *)
find_label(ir, fn, target) ==
    LET lab == SubSeq(target, 2, Len(target)) \o ":"
        hits == {i \in fn..function_end(ir, fn) : ir[i].op = lab}
    IN IF hits = {} THEN 0 ELSE Min(hits)

goto(m, i) == IF i = 0 THEN [m EXCEPT !.status = "stuck"] ELSE [m EXCEPT !.ip = i]

binary_value(op, l, r) ==
    IF startswith(op, "add_") THEN l + r
    ELSE IF startswith(op, "sub_") THEN l - r
    ELSE IF startswith(op, "mul_") THEN l * r
    ELSE IF startswith(op, "div_") THEN (IF r = 0 THEN 0 ELSE l \div r)
    ELSE IF startswith(op, "mod_") THEN (IF r = 0 THEN 0 ELSE l % r)
    ELSE IF startswith(op, "lt_") THEN (IF l < r THEN 1 ELSE 0)
    ELSE IF startswith(op, "le_") THEN (IF l <= r THEN 1 ELSE 0)
    ELSE IF startswith(op, "gt_") THEN (IF l > r THEN 1 ELSE 0)
    ELSE IF startswith(op, "ge_") THEN (IF l >= r THEN 1 ELSE 0)
    ELSE IF startswith(op, "eq_") THEN (IF l = r THEN 1 ELSE 0)
    ELSE IF startswith(op, "ne_") THEN (IF l # r THEN 1 ELSE 0)
    ELSE IF startswith(op, "and_") THEN (IF l # 0 /\ r # 0 THEN 1 ELSE 0)
    ELSE (IF l # 0 \/ r # 0 THEN 1 ELSE 0)

is_pointer_op(op) == Len(op) > 2 /\ SubSeq(op, Len(op) - 1, Len(op)) = "_*"

Machine(ir) ==
    LET globs == {i \in 1..Len(ir) : startswith(ir[i].op, "global_")
                                      /\ ir[i].op # "global_string"}
        start == find_define(ir, "@main")
    IN [ip |-> start, fn |-> start,
        mem |-> <<>>, ptr |-> <<>>,
        glob |-> [n \in {ir[i].a1 : i \in globs} |->
                     ir[CHOOSE i \in globs : ir[i].a1 = n].val],
        params |-> <<>>, frames |-> <<>>, out |-> <<>>, ret |-> 0,
        status |-> IF start = 0 THEN "stuck" ELSE "run"]

(* one instruction of the machine m over the instruction list ir *)
ExecStep(ir, m) ==
    IF m.status # "run" THEN m
    ELSE IF m.ip > Len(ir) THEN [m EXCEPT !.status = "stuck"]
    ELSE
    LET inst == ir[m.ip]
        op == inst.op
        n == [m EXCEPT !.ip = @ + 1]
    IN IF startswith(op, "define")
       THEN [n EXCEPT !.mem = [p \in Range(inst.ps) |->
                                  LET k == CHOOSE j \in 1..Len(inst.ps) : inst.ps[j] = p
                                  IN IF k <= Len(m.params) THEN m.params[k] ELSE 0],
                      !.params = <<>>]
       ELSE IF startswith(op, "literal") THEN write(n, inst.a2, inst.val)
       ELSE IF startswith(op, "load")
       THEN IF is_pointer_op(op)
            THEN write(n, inst.a2, lookup(m.mem, lookup(m.ptr, inst.a1)))
            ELSE write(n, inst.a2, read(m, inst.a1))
       ELSE IF startswith(op, "store")
       THEN IF is_pointer_op(op)
            THEN write(n, lookup(m.ptr, inst.a2), read(m, inst.a1))
            ELSE write(n, inst.a2, read(m, inst.a1))
       ELSE IF startswith(op, "elem")
       THEN [n EXCEPT !.ptr = assign(@, inst.a3,
                                     inst.a1 \o "#" \o ToString(read(m, inst.a2)))]
       ELSE IF is_binary_op(inst)
       THEN write(n, inst.a3, binary_value(op, read(m, inst.a1), read(m, inst.a2)))
       ELSE IF startswith(op, "not_")
       THEN write(n, inst.a2, IF read(m, inst.a1) = 0 THEN 1 ELSE 0)
       ELSE IF startswith(op, "sitofp") \/ startswith(op, "fptosi")
       THEN write(n, inst.a2, read(m, inst.a1))
       ELSE IF op = "print_string"
       THEN [n EXCEPT !.out = Append(@, "assertion_fail")]
       ELSE IF startswith(op, "print")
       THEN [n EXCEPT !.out = Append(@, ToString(read(m, inst.a1)))]
       ELSE IF startswith(op, "param")
       THEN [n EXCEPT !.params = Append(@, read(m, inst.a1))]
       ELSE IF startswith(op, "call")
       THEN LET callee == find_define(ir, inst.a1)
            IN IF callee = 0 THEN [m EXCEPT !.status = "stuck"]
               ELSE [m EXCEPT !.frames = Append(@, [ip |-> m.ip + 1, fn |-> m.fn,
                                                    target |-> inst.a2,
                                                    mem |-> m.mem, ptr |-> m.ptr]),
                              !.ip = callee, !.fn = callee,
                              !.mem = <<>>, !.ptr = <<>>]
       ELSE IF startswith(op, "return")
       THEN LET v == IF op = "return_void" THEN 0 ELSE read(m, inst.a1)
            IN IF Len(m.frames) = 0
               THEN [m EXCEPT !.status = "halt", !.ret = v]
               ELSE LET f == m.frames[Len(m.frames)]
                    IN [m EXCEPT !.frames = SubSeq(@, 1, Len(@) - 1),
                                 !.ip = f.ip, !.fn = f.fn, !.ptr = f.ptr,
                                 !.mem = assign(f.mem, f.target, v)]
       ELSE IF op = "jump" THEN goto(m, find_label(ir, m.fn, inst.a1))
       ELSE IF op = "cbranch"
       THEN goto(m, find_label(ir, m.fn, IF read(m, inst.a1) # 0 THEN inst.a2
                                          ELSE inst.a3))
       ELSE n

(***************************************************************************)
(* uc_type: the basic types, by name, with their operator sets.            *)
(***************************************************************************)
type_binary_ops(t) ==
    CASE t \in {"int", "float"} -> {"+", "-", "*", "/", "%"}
      [] t = "string" -> {"+"}
      [] OTHER -> {}

type_rel_ops(t) ==
    CASE t \in {"int", "float"} -> {"==", "!=", "<", ">", "<=", ">="}
      [] t \in {"char", "bool"} -> {"==", "!=", "&&", "||"}
      [] t = "void" -> {}
      [] OTHER -> {"==", "!="}

type_assign_ops(t) ==
    CASE t \in {"int", "float"} -> {"=", "+=", "-=", "*=", "/=", "%="}
      [] t = "void" -> {}
      [] OTHER -> {"="}

(* ArrayType.__str__ for a one-dimensional array of a basic type *)
ArrayType(element_type, size) == element_type \o "[" \o size \o "]"

(***************************************************************************)
(* SymbolTable (uc_sema.py).  The dict maps a name to the pair (value,     *)
(* previous entry); here table[name] is that chain as a sequence, the      *)
(* newest binding last, and the empty sequence stands for a missing key    *)
(* and for a key whose entry is None alike (both read as None through      *)
(* self.get(name, None)).  args holds the parallel chains of parameter     *)
(* signatures and scope the list of lists of names.  NoArgs is the None    *)
(* that a variable gets as its signature.                                  *)
(***************************************************************************)
NoArgs == <<"None">>

SymbolTable == [table |-> <<>>, args |-> <<>>, scope |-> <<>>]

(* self.get(name, None), as the chain of bindings *)
chain_of(d, name) == IF name \in DOMAIN d THEN d[name] ELSE <<>>

(* d[name] = chain, for a key that may be new *)
put(d, name, chain) ==
    [n \in DOMAIN d \cup {name} |-> IF n = name THEN chain ELSE d[n]]

(* scp is the distance from the end of self.scope: 1 for -1, 2 for -2 *)
add(st, name, value, args, scp) ==
    [table |-> put(st.table, name, Append(chain_of(st.table, name), value)),
     args |-> put(st.args, name, Append(chain_of(st.args, name), args)),
     scope |-> [st.scope EXCEPT ![Len(st.scope) + 1 - scp] = Append(@, name)]]

symtab_lookup(st, name) ==
    LET c == chain_of(st.table, name) IN IF c # <<>> THEN c[Len(c)] ELSE "None"

lookup_args(st, name) ==
    LET c == chain_of(st.args, name) IN IF c # <<>> THEN c[Len(c)] ELSE NoArgs

remove(st, name) ==
    LET c == chain_of(st.table, name)
        a == chain_of(st.args, name)
    IN [st EXCEPT !.table = IF c # <<>> THEN put(@, name, SubSeq(c, 1, Len(c) - 1))
                                         ELSE @,
                  !.args = IF a # <<>> THEN put(@, name, SubSeq(a, 1, Len(a) - 1))
                                       ELSE @]

beginscope(st) == [st EXCEPT !.scope = Append(@, <<>>)]

RECURSIVE remove_all(_, _)
(* for name in self.scope[-1]: self.remove(name) *)
remove_all(st, names) ==
    IF names = <<>> THEN st ELSE remove_all(remove(st, Head(names)), Tail(names))

(* endscope that pops the list of names and leaves their bindings *)
endscope_pop_only(st) == [st EXCEPT !.scope = SubSeq(@, 1, Len(@) - 1)]

endscope(st) ==
    [remove_all(st, st.scope[Len(st.scope)])
        EXCEPT !.scope = SubSeq(@, 1, Len(@) - 1)]

(* -2: declared in the current scope, -1: in some outer scope, 0: not declared *)
declared(st, name) ==
    IF InSeq(name, st.scope[Len(st.scope)]) /\ chain_of(st.table, name) # <<>>
    THEN -2
    ELSE IF chain_of(st.table, name) # <<>> THEN -1 ELSE 0

(***************************************************************************)
(* Visitor (uc_sema.py), the semantic analyser.  The analyser object is    *)
(* the record v: symtab is its symbol table; uc_type holds the uc_type     *)
(* annotation of the node visited last, param_types the dict filled by     *)
(* visit_ParamList, expr_types the list filled by visit_ExprList and       *)
(* hasReturn the attribute of the function being visited.  annotated       *)
(* lists, in visit order, the nodes the analyser accepted (an ID with      *)
(* scope set, a declaration entered in the table, a break, a call, a       *)
(* return, a function definition); marked holds the Break nodes whose      *)
(* inside_loop is set.  A node is named by its coord, here the path of     *)
(* children() names from the Program node.  err is the code of the failed  *)
(* _assert_semantic (0 when none, -1 for an uncaught Python exception),    *)
(* stdout the line it prints, exit_code the argument of sys.exit.          *)
(***************************************************************************)
Visitor ==
    [symtab |-> SymbolTable, uc_type |-> "None", param_types |-> <<>>,
     expr_types |-> <<>>, hasReturn |-> FALSE, annotated |-> <<>>, marked |-> {},
     err |-> 0, stdout |-> "", coord |-> <<>>, exit_code |-> 0]

error_msgs(msg_code, name, ltype, rtype) ==
    CASE msg_code = 1 -> name \o " is not defined"
      [] msg_code = 2 -> ltype \o " must be of type(int)"
      [] msg_code = 3 -> "Expression must be of type(bool)"
      [] msg_code = 4 -> "Cannot assign " \o rtype \o " to " \o ltype
      [] msg_code = 5 -> "Assignment operator " \o name \o " is not supported by " \o ltype
      [] msg_code = 6 -> "Binary operator " \o name \o " does not have matching LHS/RHS types"
      [] msg_code = 7 -> "Binary operator " \o name \o " is not supported by " \o ltype
      [] msg_code = 8 -> "Break statement must be inside a loop"
      [] msg_code = 9 -> "Array dimension mismatch"
      [] msg_code = 10 -> "Size mismatch on " \o name \o " initialization"
      [] msg_code = 11 -> name \o " initialization type mismatch"
      [] msg_code = 15 -> "conditional expression is " \o ltype \o ", not type(bool)"
      [] msg_code = 16 -> name \o " is not a function"
      [] msg_code = 17 -> "no. arguments to call " \o name \o " function mismatch"
      [] msg_code = 18 -> "Type mismatch with parameter " \o name
      [] msg_code = 19 -> "The condition expression must be of type(bool)"
      [] msg_code = 21 -> "Expression is not of basic type"
      [] msg_code = 22 -> name \o " does not reference a variable of basic type"
      [] msg_code = 24 -> "Return of " \o ltype \o " is incompatible with " \o rtype
                             \o " function definition"
      [] msg_code = 25 -> "Name " \o name \o " is already defined in this scope"
      [] OTHER -> "Undefined error"

(* print("SemanticError: %s %s" % (msg, coord)); sys.exit(1) *)
_assert_semantic(v, condition, msg_code, coord, name, ltype, rtype) ==
    IF condition THEN v
    ELSE [v EXCEPT !.err = msg_code,
                   !.stdout = "SemanticError: " \o error_msgs(msg_code, name, ltype, rtype),
                   !.coord = coord,
                   !.exit_code = 1]

(* an uncaught Python exception: the traceback goes to stderr *)
raise(v, coord) == [v EXCEPT !.err = -1, !.coord = coord, !.exit_code = 1]

type_str(t) == "type(" \o t \o ")"

annotate(v, ev, coord, name, uc_type) ==
    [v EXCEPT !.annotated = Append(@, [ev |-> ev, coord |-> coord, name |-> name,
                                        uc_type |-> uc_type]),
              !.uc_type = uc_type]

(* the name children() gives the i-th element of a list field *)
item(field, i) == field \o "[" \o ToString(i) \o "]"

(***************************************************************************)
(* Node.children(): the pairs (name, child).  A For lists t1 even when it  *)
(* is None; a call with two or more arguments holds them in an ExprList.   *)
(***************************************************************************)
items(field, nodes) == [i \in 1..Len(nodes) |-> <<item(field, i), nodes[i]>>]

optional(field, node) == IF node.k = "None" THEN <<>> ELSE <<<<field, node>>>>

children(node) ==
    CASE node.k = "Program" -> items("gdecls", node.gdecls)
      [] node.k = "GlobalDecl" -> items("declaration", node.declaration)
      [] node.k = "FuncDef" ->
            items("params", node.params)
               \o <<<<"compound_statement", node.compound_statement>>>>
      [] node.k = "FuncDecl" -> items("params", node.params)
      [] node.k = "Decl" -> optional("init", node.init)
      [] node.k = "Compound" ->
            items("decls", node.decls) \o items("statmts", node.statmts)
      [] node.k = "If" ->
            optional("expr", node.expr) \o optional("ifstat", node.ifstat)
               \o optional("elsestat", node.elsestat)
      [] node.k = "While" -> optional("expr", node.expr) \o optional("stat", node.stat)
      [] node.k = "For" ->
            <<<<"t1", node.t1>>>> \o optional("t2", node.t2)
               \o optional("t3", node.t3) \o optional("stat", node.stat)
      [] node.k \in {"Return", "Print", "Assert"} -> optional("expr", node.expr)
      [] node.k = "Assignment" -> <<<<"lvalue", node.lvalue>>, <<"rside", node.rvalue>>>>
      [] node.k = "BinaryOp" -> <<<<"left", node.left>>, <<"right", node.right>>>>
      [] node.k = "Cast" -> <<<<"value", node.value>>>>
      [] node.k = "FuncCall" ->
            <<<<"declarator", node.declarator>>>> \o items("arguments", node.arguments)
      [] node.k = "ArrayRef" -> <<<<"id", node.id>>, <<"pos", node.pos>>>>
      [] OTHER -> <<>>

RECURSIVE sema_visit(_, _, _)
RECURSIVE sema_visit_children(_, _, _)

(* for _, child in node.children(): self.visit(child) *)
sema_visit_children(v, kids, coord) ==
    IF kids = <<>> \/ v.err # 0 THEN v
    ELSE sema_visit_children(sema_visit(v, Head(kids)[2], Append(coord, Head(kids)[1])),
                             Tail(kids), coord)

sema_visit_Constant(v, node, coord) == [v EXCEPT !.uc_type = node.type]

(* node.scope = True; node.uc_type = self.symtab.lookup(node.name) *)
sema_id_scope(v1, node, coord) ==
    IF v1.err # 0 THEN v1
    ELSE annotate(v1, "ID", coord, node.name, symtab_lookup(v1.symtab, node.name))

sema_visit_ID(v, node, coord) ==
    sema_id_scope(_assert_semantic(v, declared(v.symtab, node.name) < 0, 1, coord,
                              node.name, "", ""),
             node, coord)

sema_binop_type(v3, ltype, node, coord) ==
    IF v3.err # 0 THEN v3
    ELSE IF node.op \in type_binary_ops(ltype) THEN [v3 EXCEPT !.uc_type = ltype]
    ELSE IF node.op \in type_rel_ops(ltype) THEN [v3 EXCEPT !.uc_type = "bool"]
    ELSE _assert_semantic(v3, FALSE, 7, coord, node.op, type_str(ltype), "")

sema_binop_match(v2, ltype, node, coord) ==
    IF v2.err # 0 THEN v2
    ELSE sema_binop_type(_assert_semantic(v2, ltype = v2.uc_type, 6, coord, node.op, "", ""),
                    ltype, node, coord)

sema_binop_right(v1, node, coord) ==
    IF v1.err # 0 THEN v1
    ELSE sema_binop_match(sema_visit(v1, node.right, Append(coord, "right")),
                     v1.uc_type, node, coord)

sema_visit_BinaryOp(v, node, coord) ==
    sema_binop_right(sema_visit(v, node.left, Append(coord, "left")), node, coord)

sema_assign_op(v3, ltype, node, coord) ==
    IF v3.err # 0 THEN v3
    ELSE [_assert_semantic(v3, node.op \in type_assign_ops(ltype), 5, coord, node.op,
                           type_str(ltype), "")
             EXCEPT !.uc_type = "void"]

(* an ID just visited has its scope set, so error 1 cannot fire here *)
sema_assign_match(v2, rtype, node, coord) ==
    IF v2.err # 0 THEN v2
    ELSE sema_assign_op(_assert_semantic(v2, v2.uc_type = rtype, 4, coord, "",
                                    type_str(v2.uc_type), type_str(rtype)),
                   v2.uc_type, node, coord)

sema_assign_left(v1, node, coord) ==
    IF v1.err # 0 THEN v1
    ELSE sema_assign_match(sema_visit(v1, node.lvalue, Append(coord, "lvalue")),
                      v1.uc_type, node, coord)

sema_visit_Assignment(v, node, coord) ==
    sema_assign_left(sema_visit(v, node.rvalue, Append(coord, "rside")), node, coord)

(* visit_VarDecl / visit_ArrayDecl: the uc_type of the declarator *)
sema_decl_type(node) ==
    IF node.dim = "" THEN node.type
    ELSE ArrayType(node.type, SubSeq(node.dim, 2, Len(node.dim)))

(* the checks on an initialiser: error 11 for a variable of basic type,    *)
(* error 10 (_check_array) for an array of known size                      *)
sema_decl_init_check(v3, node, coord) ==
    IF v3.err # 0 THEN v3
    ELSE [_assert_semantic(v3, sema_decl_type(node) = v3.uc_type,
                           IF node.dim = "" THEN 11 ELSE 10, coord, node.name, "", "")
             EXCEPT !.uc_type = sema_decl_type(node)]

sema_decl_init(v2, node, coord) ==
    IF node.init.k = "None" THEN v2
    ELSE sema_decl_init_check(sema_visit(v2, node.init, Append(coord, "init")), node, coord)

sema_decl_add(v1, node, coord) ==
    IF v1.err # 0 THEN v1
    ELSE sema_decl_init(annotate([v1 EXCEPT !.symtab = add(@, node.name, sema_decl_type(node),
                                                      NoArgs, 1)],
                            "Decl", coord, node.name, sema_decl_type(node)),
                   node, coord)

(* visit_Decl for a declarator that is not a FuncDecl *)
sema_visit_Decl(v, node, coord) ==
    sema_decl_add(_assert_semantic(v, declared(v.symtab, node.name) # -2, 25, coord,
                              node.name, "", ""),
             node, coord)

(* node.param_types[child.name] = child.uc_type *)
sema_param_type(v1, child) ==
    IF v1.err # 0 THEN v1
    ELSE [v1 EXCEPT !.param_types = Append(@, <<child.name, v1.uc_type>>)]

RECURSIVE sema_visit_ParamList(_, _, _, _)
sema_visit_ParamList(v, params, coord, i) ==
    IF i > Len(params) \/ v.err # 0 THEN v
    ELSE sema_visit_ParamList(
             sema_param_type(sema_visit(v, params[i], Append(coord, item("params", i))),
                        params[i]),
             params, coord, i + 1)

sema_funcdecl_add(v2, node, coord) ==
    IF v2.err # 0 THEN v2
    ELSE annotate([v2 EXCEPT !.symtab = add(@, node.name, node.type, v2.param_types, 2)],
                  "FuncDecl", coord, node.name, node.type)

sema_funcdecl_declared(v1, node, coord) ==
    IF v1.err # 0 THEN v1
    ELSE sema_funcdecl_add(_assert_semantic(v1, declared(v1.symtab, node.name) # -2, 25,
                                       coord, node.name, "", ""),
                      node, coord)

(* visit_Decl for a FuncDecl declarator (a prototype, or the name of a     *)
(* FuncDef): beginscope, visit_FuncDecl and visit_ParamList, then the name *)
(* of the function goes into the scope below                               *)
sema_visit_Decl_FuncDecl(v, node, coord) ==
    sema_funcdecl_declared(
        sema_visit_ParamList([v EXCEPT !.symtab = beginscope(@), !.param_types = <<>>],
                             node.params, coord, 1),
        node, coord)

(* node.expr.uc_type of a Return already visited *)
sema_return_type(v, coord) ==
    LET i == CHOOSE i \in 1..Len(v.annotated) :
                 v.annotated[i].ev = "Return" /\ v.annotated[i].coord = coord
    IN v.annotated[i].uc_type

RECURSIVE _find_return(_, _, _, _)
RECURSIVE _find_return_children(_, _, _, _)

_find_return_children(v, kids, coord, ftype) ==
    IF kids = <<>> \/ v.err # 0 THEN v
    ELSE _find_return_children(
             _find_return(v, Head(kids)[2], Append(coord, Head(kids)[1]), ftype),
             Tail(kids), coord, ftype)

(* None has no children(), and the expr of a bare return has no uc_type:   *)
(* both raise AttributeError                                               *)
_find_return(v, node, coord, ftype) ==
    IF node.k = "None" THEN raise(v, coord)
    ELSE IF node.k = "Return"
    THEN IF node.expr.k = "None" THEN raise(v, coord)
         ELSE [_assert_semantic(v, sema_return_type(v, coord) = ftype, 24, coord, "",
                                type_str(sema_return_type(v, coord)), type_str(ftype))
                  EXCEPT !.hasReturn = TRUE]
    ELSE _find_return_children(v, children(node), coord, ftype)

sema_funcdef_end(v4, node, coord) ==
    IF v4.err # 0 THEN v4
    ELSE annotate([v4 EXCEPT !.symtab = endscope(@)], "FuncDef", coord, node.name,
                  node.type)

sema_funcdef_hasReturn(v3, node, coord) ==
    IF v3.err # 0 THEN v3
    ELSE sema_funcdef_end(_assert_semantic(v3, v3.hasReturn, 24,
                                      Append(coord, "compound_statement"), "",
                                      "type(void)", type_str(node.type)),
                     node, coord)

sema_funcdef_returns(v2, node, coord) ==
    IF v2.err # 0 THEN v2
    ELSE IF node.type # "void"
    THEN sema_funcdef_hasReturn(_find_return(v2, node.compound_statement,
                                        Append(coord, "compound_statement"), node.type),
                           node, coord)
    ELSE sema_funcdef_end(v2, node, coord)

sema_funcdef_compound(v1, node, coord) ==
    IF v1.err # 0 THEN v1
    ELSE sema_funcdef_returns(sema_visit(v1, node.compound_statement,
                                    Append(coord, "compound_statement")),
                         node, coord)

sema_visit_FuncDef(v, node, coord) ==
    sema_funcdef_compound(sema_visit_Decl_FuncDecl([v EXCEPT !.hasReturn = FALSE], node, coord),
                     node, coord)

(* node.expr_types.append((child.uc_type, child)) *)
sema_expr_type(v1, coord) ==
    IF v1.err # 0 THEN v1
    ELSE [v1 EXCEPT !.expr_types = Append(@, <<v1.uc_type, coord>>)]

RECURSIVE sema_visit_ExprList(_, _, _, _)
sema_visit_ExprList(v, exprs, coord, i) ==
    IF i > Len(exprs) \/ v.err # 0 THEN v
    ELSE sema_visit_ExprList(
             sema_expr_type(sema_visit(v, exprs[i], Append(coord, item("arguments", i))),
                       Append(coord, item("arguments", i))),
             exprs, coord, i + 1)

(* for i, def_arg in enumerate(def_args): the first mismatch is error 18 *)
sema_call_types(v4, def_args, uc_type, node, coord) ==
    IF v4.err # 0 THEN v4
    ELSE LET mismatch == {i \in 1..Len(def_args) : def_args[i][2] # v4.expr_types[i][1]}
         IN IF mismatch = {}
            THEN annotate(v4, "FuncCall", coord, node.declarator.name, uc_type)
            ELSE _assert_semantic(v4, FALSE, 18, v4.expr_types[Min(mismatch)][2],
                                  def_args[Min(mismatch)][1], "", "")

(* the checks made when node.arguments is an ExprList *)
sema_call_count(v3, def_args, uc_type, node, coord) ==
    IF v3.err # 0 THEN v3
    ELSE sema_call_types(_assert_semantic(v3, Len(v3.expr_types) = Len(def_args), 17, coord,
                                     node.declarator.name, "", ""),
                    def_args, uc_type, node, coord)

(* a single argument is not an ExprList: it is visited and nothing more *)
sema_call_single(v3, uc_type, node, coord) ==
    IF v3.err # 0 THEN v3
    ELSE annotate(v3, "FuncCall", coord, node.declarator.name, uc_type)

sema_call_arguments(v2, uc_type, node, coord) ==
    IF v2.err # 0 THEN v2
    ELSE IF Len(node.arguments) = 0
    THEN annotate(v2, "FuncCall", coord, node.declarator.name, uc_type)
    ELSE IF Len(node.arguments) = 1
    THEN sema_call_single(sema_visit(v2, node.arguments[1],
                                Append(coord, item("arguments", 1))),
                     uc_type, node, coord)
    ELSE sema_call_count(sema_visit_ExprList([v2 EXCEPT !.expr_types = <<>>],
                                        node.arguments, coord, 1),
                    lookup_args(v2.symtab, node.declarator.name), uc_type, node, coord)

sema_call_declarator(v1, node, coord) ==
    IF v1.err # 0 THEN v1
    ELSE sema_call_arguments(
             _assert_semantic(v1, lookup_args(v1.symtab, node.declarator.name) # NoArgs,
                              16, coord, node.declarator.name, "", ""),
             v1.uc_type, node, coord)

sema_visit_FuncCall(v, node, coord) ==
    sema_call_declarator(sema_visit(v, node.declarator, Append(coord, "declarator")),
                    node, coord)

(* node.id.uc_type.type: only an ArrayType has the attribute *)
sema_arrayref_type(v3, id_type, coord) ==
    IF v3.err # 0 THEN v3
    ELSE LET open == {i \in 1..Len(id_type) : SubSeq(id_type, i, i) = "["}
         IN IF open = {} THEN raise(v3, coord)
            ELSE [v3 EXCEPT !.uc_type = SubSeq(id_type, 1, Min(open) - 1)]

sema_arrayref_pos(v2, id_type, node, coord) ==
    IF v2.err # 0 THEN v2
    ELSE sema_arrayref_type(_assert_semantic(v2, v2.uc_type = "int", 2,
                                        Append(coord, "pos"), "",
                                        type_str(v2.uc_type), ""),
                       id_type, coord)

sema_arrayref_id(v1, node, coord) ==
    IF v1.err # 0 THEN v1
    ELSE sema_arrayref_pos(sema_visit(v1, node.pos, Append(coord, "pos")),
                      v1.uc_type, node, coord)

sema_visit_ArrayRef(v, node, coord) ==
    sema_arrayref_id(sema_visit(v, node.id, Append(coord, "id")), node, coord)

RECURSIVE _find_break(_, _, _)
RECURSIVE _find_break_children(_, _, _)

_find_break_children(v, kids, coord) ==
    IF kids = <<>> \/ v.err # 0 THEN v
    ELSE _find_break_children(
             _find_break(v, Head(kids)[2], Append(coord, Head(kids)[1])),
             Tail(kids), coord)

(* node.inside_loop = True; None has no children() and raises *)
_find_break(v, node, coord) ==
    IF node.k = "None" THEN raise(v, coord)
    ELSE IF node.k = "Break" THEN [v EXCEPT !.marked = @ \cup {coord}]
    ELSE _find_break_children(v, children(node), coord)

(* self.symtab.endscope() at the end of a visit *)
sema_scope_end(v1) == IF v1.err # 0 THEN v1 ELSE [v1 EXCEPT !.symtab = endscope(@)]

(* the children of a For are visited in order; visiting None does nothing *)
sema_for_children(v1, node, coord) ==
    IF v1.err # 0 THEN v1
    ELSE sema_scope_end(sema_visit_children(v1, children(node), coord))

sema_visit_For(v, node, coord) ==
    sema_for_children(_find_break([v EXCEPT !.symtab = beginscope(@)], node, coord),
                 node, coord)

sema_while_stat(v3, node, coord) ==
    IF v3.err # 0 THEN v3
    ELSE sema_scope_end(sema_visit(v3, node.stat, Append(coord, "stat")))

sema_while_cond(v2, node, coord) ==
    IF v2.err # 0 THEN v2
    ELSE sema_while_stat(_assert_semantic(v2, v2.uc_type = "bool", 15, coord, "",
                                     type_str(v2.uc_type), ""),
                    node, coord)

sema_while_expr(v1, node, coord) ==
    IF v1.err # 0 THEN v1
    ELSE sema_while_cond(sema_visit(v1, node.expr, Append(coord, "expr")), node, coord)

sema_visit_While(v, node, coord) ==
    sema_while_expr(_find_break([v EXCEPT !.symtab = beginscope(@)], node, coord),
               node, coord)

sema_break_inside(v1, coord) ==
    IF v1.err # 0 THEN v1 ELSE annotate(v1, "Break", coord, "", v1.uc_type)

sema_visit_Break(v, node, coord) ==
    sema_break_inside(_assert_semantic(v, coord \in v.marked, 8, coord, "", "", ""), coord)

(* the condition is checked after both branches have been visited *)
sema_if_cond(v2, expr_uc_type, coord) ==
    IF v2.err # 0 THEN v2
    ELSE sema_scope_end(_assert_semantic(v2, expr_uc_type = "bool", 19,
                                    Append(coord, "expr"), "", "", ""))

sema_if_stats(v1, node, coord) ==
    IF v1.err # 0 THEN v1
    ELSE sema_if_cond(sema_visit_children(v1, Tail(children(node)), coord),
                 v1.uc_type, coord)

sema_visit_If(v, node, coord) ==
    sema_if_stats(sema_visit([v EXCEPT !.symtab = beginscope(@)], node.expr,
                        Append(coord, "expr")),
             node, coord)

sema_print_type(v1, node, coord) ==
    IF v1.err # 0 THEN v1
    ELSE IF node.expr.k = "ID"
    THEN _assert_semantic(v1, v1.uc_type \in {"int", "char", "float", "string", "char[]"},
                          22, Append(coord, "expr"), node.expr.name, "", "")
    ELSE IF node.expr.k = "FuncCall"
    THEN _assert_semantic(v1, v1.uc_type \in {"int", "char", "float", "string", "char[]"},
                          21, Append(Append(coord, "expr"), "declarator"),
                          node.expr.declarator.name, "", "")
    ELSE v1

sema_visit_Print(v, node, coord) ==
    sema_print_type(sema_visit(v, node.expr, Append(coord, "expr")), node, coord)

sema_assert_type(v1, coord) ==
    IF v1.err # 0 THEN v1
    ELSE _assert_semantic(v1, v1.uc_type = "bool", 3, Append(coord, "expr"), "", "", "")

sema_visit_Assert(v, node, coord) ==
    sema_assert_type(sema_visit(v, node.expr, Append(coord, "expr")), coord)

(* node.uc_type = node.expr.uc_type; a bare return keeps uc_type None *)
sema_return_expr(v1, coord) ==
    IF v1.err # 0 THEN v1 ELSE annotate(v1, "Return", coord, "", v1.uc_type)

sema_visit_Return(v, node, coord) ==
    IF node.expr.k = "None" THEN annotate(v, "Return", coord, "", "None")
    ELSE sema_return_expr(sema_visit(v, node.expr, Append(coord, "expr")), coord)

sema_cast_type(v1, node) == IF v1.err # 0 THEN v1 ELSE [v1 EXCEPT !.uc_type = node.type]

sema_visit_Cast(v, node, coord) ==
    sema_cast_type(sema_visit(v, node.value, Append(coord, "value")), node)

sema_visit_Compound(v, node, coord) ==
    sema_scope_end(sema_visit_children([v EXCEPT !.symtab = beginscope(@)],
                                  children(node), coord))

(* NodeVisitor.visit; a node without a visit method (GlobalDecl) gets       *)
(* generic_visit, and None is not a Node                                   *)
sema_visit(v, node, coord) ==
    IF v.err # 0 THEN v
    ELSE CASE node.k = "Constant" -> sema_visit_Constant(v, node, coord)
           [] node.k = "ID" -> sema_visit_ID(v, node, coord)
           [] node.k = "BinaryOp" -> sema_visit_BinaryOp(v, node, coord)
           [] node.k = "Cast" -> sema_visit_Cast(v, node, coord)
           [] node.k = "ArrayRef" -> sema_visit_ArrayRef(v, node, coord)
           [] node.k = "FuncCall" -> sema_visit_FuncCall(v, node, coord)
           [] node.k = "Assignment" -> sema_visit_Assignment(v, node, coord)
           [] node.k = "Print" -> sema_visit_Print(v, node, coord)
           [] node.k = "If" -> sema_visit_If(v, node, coord)
           [] node.k = "While" -> sema_visit_While(v, node, coord)
           [] node.k = "For" -> sema_visit_For(v, node, coord)
           [] node.k = "Break" -> sema_visit_Break(v, node, coord)
           [] node.k = "Assert" -> sema_visit_Assert(v, node, coord)
           [] node.k = "Return" -> sema_visit_Return(v, node, coord)
           [] node.k = "Compound" -> sema_visit_Compound(v, node, coord)
           [] node.k = "Decl" -> sema_visit_Decl(v, node, coord)
           [] node.k = "FuncDecl" -> sema_visit_Decl_FuncDecl(v, node, coord)
           [] node.k = "FuncDef" -> sema_visit_FuncDef(v, node, coord)
           [] node.k = "None" -> v
           [] OTHER -> sema_visit_children(v, children(node), coord)

(***************************************************************************)
(* The programs handed to the compiler.  main declares x = 1, runs up to   *)
(* MaxStmts statements over x and ends with print(x); return x.  A few     *)
(* programs add a global g, a helper function and an array.                *)
(***************************************************************************)
MaxStmts == 1

(* the dimensions of the two-dimensional array of ArrayPrograms *)
MaxRows == 2

MaxCols == 3

MaxLit == 2

x_lt_max == BinaryOp("<", ID("x"), Constant(MaxLit))

x_lt_one == BinaryOp("<", ID("x"), Constant(1))

x_plus_one == Assignment("=", "x", BinaryOp("+", ID("x"), Constant(1)))

Statements ==
    {Assignment("=", "x", Constant(v)) : v \in 1..MaxLit}
    \cup {x_plus_one,
          Assignment("+=", "x", Constant(1)),
          PrintNode(ID("x")),
          Return(ID("x")),
          If(x_lt_max, Assignment("=", "x", Constant(MaxLit)), NoneNode),
          If(x_lt_one, Assignment("=", "x", Constant(MaxLit)), NoneNode),
          If(x_lt_max, x_plus_one, Assignment("=", "x", Constant(MaxLit))),
          If(x_lt_max, Assignment("=", "x", Constant(1)),
                       Assignment("=", "x", Constant(MaxLit))),
          If(x_lt_max, Assignment("=", "x", Constant(MaxLit)),
                       Assignment("=", "x", Constant(MaxLit))),
          While(x_lt_max, x_plus_one),
          While(x_lt_max, Compound(<<>>, <<If(x_lt_one, Break, NoneNode), x_plus_one>>)),
          For(Assignment("=", "x", Constant(0)), x_lt_max,
              Assignment("+=", "x", Constant(1)), PrintNode(ID("x"))),
          AssertNode(x_lt_max),
          AssertNode(x_lt_one)}

Bodies == UNION {[1..n -> Statements] : n \in 1..MaxStmts}

main(decls, body) ==
    FuncDef("int", "main", <<>>,
            Compound(<<Decl("int", "x", Constant(1))>> \o decls,
                     body \o <<PrintNode(ID("x")), Return(ID("x"))>>))

(* int h(int n) { print(n); g = n; return n; } *)
helper(h) ==
    FuncDef("int", h, <<Decl("int", "n", NoneNode)>>,
            Compound(<<>>, <<PrintNode(ID("n")), Assignment("=", "g", ID("n")),
                             Return(ID("n"))>>))

HelperNames == {"f", "exit"}

HelperBodies(h) ==
    {<<FuncCall(h, "int", <<ID("x")>>)>>,
     <<Assignment("=", "g", ID("x")), FuncCall(h, "int", <<ID("x")>>),
       PrintNode(ID("g"))>>,
     <<Assignment("=", "x", FuncCall(h, "int", <<ID("x")>>))>>}

ArrayBody ==
    <<Assignment("=", "x", Cast("int", Cast("float", ID("x")))),
      PrintNode(ArrayRef("a", ID("x")))>>

(* int main(){int a; a = 2 + 3; print(a); return a;} *)
ConstantFoldingScenario ==
    Program(<<FuncDef("int", "main", <<>>,
                      Compound(<<Decl("int", "a", NoneNode)>>,
                               <<Assignment("=", "a", BinaryOp("+", Constant(2), Constant(3))),
                                 PrintNode(ID("a")), Return(ID("a"))>>))>>)

(* int main(){int x = 7; int y; y = 10; return x;} *)
DeadStoreScenario ==
    Program(<<FuncDef("int", "main", <<>>,
                      Compound(<<Decl("int", "x", Constant(7)), Decl("int", "y", NoneNode)>>,
                               <<Assignment("=", "y", Constant(10)), Return(ID("x"))>>))>>)

(* int main(){int x = 1; assert x < 1;                                    *)
(*            while (x < 2) { if (x < 1) break; x = x + 1; }               *)
(*            print(x); return x;}                                         *)
AssertLoopBreakScenario ==
    Program(<<main(<<>>,
                   <<AssertNode(x_lt_one),
                     While(BinaryOp("<", ID("x"), Constant(2)),
                           Compound(<<>>, <<If(x_lt_one, Break, NoneNode), x_plus_one>>))>>)>>)

(* int g; int main(){int x = 1; g = x; print(g); print(x); return x;} *)
GlobalWithoutInitScenario ==
    Program(<<GlobalDecl(<<Decl("int", "g", NoneNode)>>),
              main(<<>>, <<Assignment("=", "g", ID("x")), PrintNode(ID("g"))>>)>>)

(* int main(){int x = 1; print(x); print(x); return x;} int h = 2; *)
GlobalAfterFunctionScenario ==
    Program(<<main(<<>>, <<PrintNode(ID("x"))>>),
              GlobalDecl(<<Decl("int", "h", Constant(2))>>)>>)

(* int z(){return 1;} int main(){int x = 1; x = z(); print(x); return x;} *)
ZeroArgumentCallScenario ==
    Program(<<FuncDef("int", "z", <<>>, Compound(<<>>, <<Return(Constant(1))>>)),
              main(<<>>, <<Assignment("=", "x", FuncCall("z", "int", <<>>))>>)>>)

(* int p(int n, int m){return n;}                                          *)
(* int main(){int x = 1; x = p(x, p(x, x)); print(x); return x;}           *)
NestedCallScenario ==
    Program(<<FuncDef("int", "p", <<Decl("int", "n", NoneNode), Decl("int", "m", NoneNode)>>,
                      Compound(<<>>, <<Return(ID("n"))>>)),
              main(<<>>, <<Assignment("=", "x",
                              FuncCall("p", "int",
                                 <<ID("x"), FuncCall("p", "int", <<ID("x"), ID("x")>>)>>))>>)>>)

(* the index expressions tried for a dimension of size n: every literal   *)
(* in range and the variable x (which holds 1)                             *)
Indices(n) == {Constant(v) : v \in 0..(n - 1)} \cup {ID("x")}

(* int main(){int x = 1; int a[MaxRows][MaxCols]; print(a[i][j]);          *)
(*            print(x); return x;}                                         *)
ArrayPrograms ==
    {Program(<<main(<<ArrayDecl2("int", "a", MaxRows, MaxCols)>>,
                    <<PrintNode(ArrayRef2("a", i, j))>>)>>) :
        i \in Indices(MaxRows), j \in Indices(MaxCols)}

(* int main(){int x = 1; int a[MaxRows][MaxCols];                          *)
(*            { int a[MaxCols][MaxRows]; print(x); }                       *)
(*            print(a[1][1]); print(x); return x;}                         *)
ShadowedArrayScenario ==
    Program(<<main(<<ArrayDecl2("int", "a", MaxRows, MaxCols)>>,
                   <<Compound(<<ArrayDecl2("int", "a", MaxCols, MaxRows)>>,
                              <<PrintNode(ID("x"))>>),
                     PrintNode(ArrayRef2("a", Constant(1), Constant(1)))>>)>>)

(* a while or a for over x with the given body *)
Loop(kind, body) ==
    IF kind = "While" THEN While(x_lt_max, body)
    ELSE For(Assignment("=", "x", Constant(0)), x_lt_max,
             Assignment("+=", "x", Constant(1)), body)

break_if_lt_one == If(x_lt_one, Break, NoneNode)

(* int main(){int x = 1; outer (..) { [if (x < 1) break;] inner (..) body   *)
(*            x = x + 1; | break; } print(x); return x;}: a loop in a loop, *)
(* with a break in the inner loop and breaks of the outer loop ahead of    *)
(* and behind the inner loop                                               *)
NestedLoopPrograms ==
    {Program(<<main(<<>>, <<Loop(outer, Compound(<<>>, pre \o <<Loop(inner, body)>> \o post))>>)>>) :
        outer \in {"While", "For"}, inner \in {"While", "For"},
        pre \in {<<>>, <<break_if_lt_one>>},
        post \in {<<x_plus_one>>, <<Break>>},
        body \in {Break, Compound(<<>>, <<break_if_lt_one, x_plus_one>>)}}

(* int main(){int x = 1; char c = 'a'; print(c); print(x); return x;} *)
CharLiteralScenario ==
    Program(<<main(<<Decl("char", "c", CharConstant(1))>>,
                   <<PrintNode(TypedID("c", "char"))>>)>>)

Scenarios ==
    {CharLiteralScenario, ConstantFoldingScenario, DeadStoreScenario, AssertLoopBreakScenario,
     GlobalWithoutInitScenario, GlobalAfterFunctionScenario,
     ZeroArgumentCallScenario, NestedCallScenario, ShadowedArrayScenario}

Programs ==
    {Program(<<main(<<>>, b)>>) : b \in Bodies}
    \cup UNION {{Program(<<GlobalDecl(<<Decl("int", "g", Constant(0))>>), helper(h),
                           main(<<>>, b)>>) : b \in HelperBodies(h)} : h \in HelperNames}
    \cup {Program(<<main(<<ArrayDecl("int", "a", 2)>>, ArrayBody)>>)}
    \cup ArrayPrograms
    \cup NestedLoopPrograms
    \cup Scenarios

(***************************************************************************)
(* The programs handed to the semantic analyser alone: declarations ahead  *)
(* of main (a global, a prototype, a function f in several shapes), then   *)
(* main, which declares y = 1 and runs one of SemaBodies.                  *)
(***************************************************************************)
y_lt_one == BinaryOp("<", ID("y"), Constant(1))

int_n == Decl("int", "n", NoneNode)

(* t f(params) { stmts } *)
f_def(t, params, stmts) == FuncDef(t, "f", params, Compound(<<>>, stmts))

SemaHeads ==
    {<<>>,
     <<GlobalDecl(<<Decl("int", "x", NoneNode)>>)>>,
     <<GlobalDecl(<<Decl("int", "x", NoneNode)>>),
       GlobalDecl(<<Decl("int", "x", NoneNode)>>)>>,
     <<GlobalDecl(<<FuncDecl("int", "f", <<int_n>>)>>)>>,
     <<GlobalDecl(<<Decl("int", "x", NoneNode)>>),
       GlobalDecl(<<FuncDecl("int", "f", <<int_n>>)>>),
       GlobalDecl(<<Decl("int", "x", NoneNode)>>)>>,
     <<f_def("int", <<>>, <<Return(Constant(1))>>)>>,
     <<f_def("int", <<int_n>>, <<Return(ID("n"))>>)>>,
     <<f_def("int", <<Decl("int", "a", NoneNode), Decl("int", "b", NoneNode)>>,
             <<Return(ID("a"))>>)>>,
     <<f_def("void", <<>>, <<Return(Constant(1))>>)>>,
     <<f_def("void", <<>>, <<Return(NoneNode)>>)>>,
     <<f_def("void", <<>>, <<PrintNode(Constant(1))>>)>>,
     <<f_def("int", <<>>, <<Return(NoneNode)>>)>>,
     <<f_def("int", <<>>, <<PrintNode(Constant(1))>>)>>,
     <<f_def("int", <<>>, <<Return(FloatConstant(1))>>)>>,
     <<f_def("float", <<>>, <<Return(FloatConstant(1))>>)>>,
     <<f_def("int", <<int_n>>,
             <<If(BinaryOp("<", ID("n"), Constant(1)), Return(FloatConstant(1)), NoneNode),
               Return(ID("n"))>>)>>,
     <<f_def("int", <<Decl("int", "f", NoneNode)>>, <<Return(ID("f"))>>)>>,
     <<f_def("int", <<int_n, int_n>>, <<Return(ID("n"))>>)>>,
     <<f_def("int", <<>>, <<Return(Constant(1))>>),
       f_def("int", <<>>, <<Return(Constant(2))>>)>>,
     <<GlobalDecl(<<Decl("int", "f", NoneNode)>>),
       f_def("int", <<>>, <<Return(Constant(1))>>)>>,
     <<FuncDef("int", "f", <<int_n>>,
               Compound(<<Decl("int", "n", Constant(2))>>, <<Return(ID("n"))>>))>>}

call_f(args) == FuncCall("f", "int", args)

SemaBodies ==
    {<<Return(Constant(0))>>,
     <<Return(ID("y"))>>,
     <<Return(ID("x"))>>,
     <<Return(ID("n"))>>,
     <<Compound(<<Decl("int", "z", Constant(1))>>, <<PrintNode(ID("z"))>>),
       Return(ID("z"))>>,
     <<Compound(<<Decl("float", "y", FloatConstant(1))>>, <<PrintNode(ID("y"))>>),
       Return(ID("y"))>>,
     <<call_f(<<>>), Return(Constant(0))>>,
     <<call_f(<<Constant(1)>>), Return(Constant(0))>>,
     <<call_f(<<FloatConstant(1)>>), Return(Constant(0))>>,
     <<call_f(<<Constant(1), Constant(2)>>), Return(Constant(0))>>,
     <<call_f(<<Constant(1), FloatConstant(2)>>), Return(Constant(0))>>,
     <<call_f(<<Constant(1), Constant(2), Constant(3)>>), Return(Constant(0))>>,
     <<FuncCall("y", "int", <<>>), Return(Constant(0))>>,
     <<Break, Return(Constant(0))>>,
     <<If(y_lt_one, Break, NoneNode), Return(Constant(0))>>,
     <<While(y_lt_one, Break), Return(Constant(0))>>,
     <<While(y_lt_one, Compound(<<>>, <<If(y_lt_one, Break, NoneNode)>>)),
       Return(Constant(0))>>,
     <<While(y_lt_one, PrintNode(ID("y"))), Break, Return(Constant(0))>>,
     <<For(Assignment("=", "y", Constant(0)), y_lt_one,
           Assignment("+=", "y", Constant(1)), Break),
       Return(Constant(0))>>,
     <<For(NoneNode, y_lt_one, NoneNode, Break), Return(Constant(0))>>}

sema_main(body) ==
    FuncDef("int", "main", <<>>, Compound(<<Decl("int", "y", Constant(1))>>, body))

SemaPrograms == {Program(h \o <<sema_main(b)>>) : h \in SemaHeads, b \in SemaBodies}

(***************************************************************************)
(* The compilation as a state machine.  prog is the input program; the     *)
(* driver runs the generator, then DataFlow.visit_Program: for every       *)
(* function, numbering, reaching definitions, constant propagation, live   *)
(* variables, dead-code elimination and emission.  The two worklist loops  *)
(* and the instruction loop of constant_propagation advance one iteration  *)
(* per step.  The interpreter then runs the generated code (the driver of  *)
(* uc_code.py) and the optimised code (the driver of uc_analysis.py), both *)
(* machines advancing together.                                            *)
(***************************************************************************)
VARIABLES prog, pc, blocks, cfgs, gencode, text, code, global_variables,
          dead_code, labeled_code, defs, index, fi, changed, worklist,
          bb, key, current_defs, vm_gen, vm_opt, steps, sema, gdecl, saved

(* the analyser, its position in node.gdecls, and the answers saved per scope *)
sema_vars == <<sema, gdecl, saved>>

vars == <<prog, pc, blocks, cfgs, gencode, text, code, global_variables,
          dead_code, labeled_code, defs, index, fi, changed, worklist,
          bb, key, current_defs, vm_gen, vm_opt, steps, sema, gdecl, saved>>

InitWith(programs) ==
    /\ prog \in programs
    /\ pc = "gen"
    /\ blocks = CodeGenerator.blocks
    /\ cfgs = <<>>
    /\ gencode = <<>>
    /\ text = <<>>
    /\ code = <<>>
    /\ global_variables = <<>>
    /\ dead_code = {}
    /\ labeled_code = <<>>
    /\ defs = <<>>
    /\ index = 1
    /\ fi = 0
    /\ changed = <<>>
    /\ worklist = <<>>
    /\ bb = None
    /\ key = 0
    /\ current_defs = {}
    /\ vm_gen = Machine(<<>>)
    /\ vm_opt = Machine(<<>>)
    /\ steps = 0
    /\ sema = Visitor
    /\ gdecl = 0
    /\ saved = <<>>

(* gen = CodeGenerator(); gen.visit(ast) *)
GenerateCode ==
    /\ pc = "gen"
    /\ \E g \in {visit_Program_code(CodeGenerator, prog)} :
          /\ pc' = IF g.err THEN "crashed" ELSE "opt"
          /\ blocks' = g.blocks
          /\ cfgs' = g.cfgs
          /\ gencode' = g.code
          /\ text' = g.text
    /\ UNCHANGED <<sema_vars, prog, code, global_variables, dead_code, labeled_code, defs,
                   index, fi, changed, worklist, bb, key, current_defs, vm_gen, vm_opt, steps>>

(* DataFlow.visit_Program up to the loop over the functions *)
OptimizeBegin ==
    /\ pc = "opt"
    /\ code' = text
    /\ global_variables' = [i \in 1..Len(text) |-> text[i].a1]
    /\ fi' = 1
    /\ pc' = IF Len(cfgs) = 0 THEN "done" ELSE "number"
    /\ UNCHANGED <<sema_vars, prog, blocks, cfgs, gencode, text, dead_code, labeled_code,
                   defs, index, changed, worklist, bb, key, current_defs, vm_gen, vm_opt, steps>>

NumberInstructions ==
    /\ pc = "number"
    /\ LET r == number_instructions(blocks, cfgs[fi])
       IN /\ blocks' = r.blocks
          /\ labeled_code' = r.labeled_code
          /\ defs' = r.defs
          /\ index' = r.index
    /\ pc' = "genkill"
    /\ UNCHANGED <<sema_vars, prog, cfgs, gencode, text, code, global_variables, dead_code,
                   fi, changed, worklist, bb, key, current_defs, vm_gen, vm_opt, steps>>

ComputeRDGenKill ==
    /\ pc = "genkill"
    /\ blocks' = computeRD_gen_kill(blocks, defs, cfgs[fi])
    /\ pc' = "rd_init"
    /\ UNCHANGED <<sema_vars, prog, cfgs, gencode, text, code, global_variables, dead_code,
                   labeled_code, defs, index, fi, changed, worklist, bb, key,
                   current_defs, vm_gen, vm_opt, steps>>

(* computeRD_in_out: the loop that fills `changed` *)
ComputeRDInOutInit ==
    /\ pc = "rd_init"
    /\ changed' = Chain(blocks, cfgs[fi])
    /\ pc' = "rd"
    /\ UNCHANGED <<sema_vars, prog, blocks, cfgs, gencode, text, code, global_variables,
                   dead_code, labeled_code, defs, index, fi, worklist, bb, key,
                   current_defs, vm_gen, vm_opt, steps>>

(* computeRD_in_out: one iteration of `while changed` *)
ComputeRDInOutStep ==
    /\ pc = "rd"
    /\ changed # <<>>
    /\ LET r == computeRD_in_out_step(blocks, Head(changed))
       IN /\ blocks' = [blocks EXCEPT ![Head(changed)] = r.block]
          /\ changed' = Tail(changed) \o r.appended
    /\ UNCHANGED <<sema_vars, prog, pc, cfgs, gencode, text, code, global_variables,
                   dead_code, labeled_code, defs, index, fi, worklist, bb, key,
                   current_defs, vm_gen, vm_opt, steps>>

(* constant_propagation up to the first instruction *)
ConstantPropagationInit ==
    /\ pc = "rd"
    /\ changed = <<>>
    /\ bb' = cfgs[fi]
    /\ current_defs' = blocks[cfgs[fi]].in_RD
    /\ key' = Min(DOMAIN blocks[cfgs[fi]].numerated_code)
    /\ pc' = "cp"
    /\ UNCHANGED <<sema_vars, prog, blocks, cfgs, gencode, text, code, global_variables,
                   dead_code, labeled_code, defs, index, fi, changed, worklist,
                   vm_gen, vm_opt, steps>>

(* constant_propagation: one iteration of the loop over the instructions; *)
(* after the last instruction of a block the next block is entered         *)
ConstantPropagationStep ==
    /\ pc = "cp"
    /\ bb # None
    /\ LET inst == blocks[bb].numerated_code[key]
           results ==
               IF startswith(inst.op, "load")
               THEN {check_constant_propagation(labeled_code, defs, o, inst.a1) :
                        o \in Orders(relevant_defs(defs, current_defs, inst.a1))}
               ELSE {NoValue}
           gk == instruction_gen_kill(defs, inst, key)
           after == IF gk.gen # {} \/ gk.kill # {}
                    THEN (current_defs \ gk.kill) \cup gk.gen
                    ELSE current_defs
           next == blocks[bb].next_block
       IN /\ \E expr_value \in results :
                IF expr_value.none
                THEN UNCHANGED <<blocks, labeled_code>>
                ELSE LET lit == LiteralInst("literal_" \o type_name(expr_value.v),
                                            expr_value.v, inst.a2)
                     IN /\ blocks' = [blocks EXCEPT ![bb].numerated_code[key] = lit]
                        /\ labeled_code' = [labeled_code EXCEPT ![key] = lit]
          /\ IF key < Max(DOMAIN blocks[bb].numerated_code)
             THEN /\ key' = key + 1
                  /\ current_defs' = after
                  /\ bb' = bb
             ELSE /\ bb' = next
                  /\ key' = IF next = None THEN 0
                            ELSE Min(DOMAIN blocks[next].numerated_code)
                  /\ current_defs' = IF next = None THEN after ELSE blocks[next].in_RD
    /\ UNCHANGED <<sema_vars, prog, pc, cfgs, gencode, text, code, global_variables,
                   dead_code, defs, index, fi, changed, worklist, vm_gen, vm_opt, steps>>

ComputeLVUseDef ==
    /\ pc = "cp"
    /\ bb = None
    /\ blocks' = computeLV_use_def(blocks, cfgs[fi])
    /\ pc' = "lv_init"
    /\ UNCHANGED <<sema_vars, prog, cfgs, gencode, text, code, global_variables, dead_code,
                   labeled_code, defs, index, fi, changed, worklist, bb, key,
                   current_defs, vm_gen, vm_opt, steps>>

(* computeLV_in_out: the loop that fills `worklist` *)
ComputeLVInOutInit ==
    /\ pc = "lv_init"
    /\ worklist' = Chain(blocks, cfgs[fi])
    /\ pc' = "lv"
    /\ UNCHANGED <<sema_vars, prog, blocks, cfgs, gencode, text, code, global_variables,
                   dead_code, labeled_code, defs, index, fi, changed, bb, key,
                   current_defs, vm_gen, vm_opt, steps>>

(* computeLV_in_out: one iteration of `while worklist` *)
ComputeLVInOutStep ==
    /\ pc = "lv"
    /\ worklist # <<>>
    /\ LET b == worklist[Len(worklist)]
           r == computeLV_in_out_step(blocks, global_variables, b)
       IN IF r.err
          THEN /\ pc' = "crashed"
               /\ UNCHANGED <<blocks, worklist>>
          ELSE /\ blocks' = [blocks EXCEPT ![b] = r.block]
               /\ worklist' = SubSeq(worklist, 1, Len(worklist) - 1) \o r.appended
               /\ pc' = pc
    /\ UNCHANGED <<sema_vars, prog, cfgs, gencode, text, code, global_variables, dead_code,
                   labeled_code, defs, index, fi, changed, bb, key, current_defs, vm_gen, vm_opt, steps>>

DeadcodeElimination ==
    /\ pc = "lv"
    /\ worklist = <<>>
    /\ dead_code' = deadcode_elimination(blocks, cfgs[fi])
    /\ pc' = "append"
    /\ UNCHANGED <<sema_vars, prog, blocks, cfgs, gencode, text, code, global_variables,
                   labeled_code, defs, index, fi, changed, worklist, bb, key,
                   current_defs, vm_gen, vm_opt, steps>>

(* appendOptimizedCode, then the next function of the program *)
AppendOptimizedCode ==
    /\ pc = "append"
    /\ code' = appendOptimizedCode(code, labeled_code, dead_code)
    /\ fi' = fi + 1
    /\ pc' = IF fi < Len(cfgs) THEN "number" ELSE "done"
    /\ UNCHANGED <<sema_vars, prog, blocks, cfgs, gencode, text, global_variables, dead_code,
                   labeled_code, defs, index, changed, worklist, bb, key,
                   current_defs, vm_gen, vm_opt, steps>>

MaxSteps == 120

(* vm.run(gen.code) and vm.run(opt.code): both machines are loaded *)
InterpretBegin ==
    /\ pc = "done"
    /\ vm_gen' = Machine(gencode)
    /\ vm_opt' = Machine(code)
    /\ steps' = 0
    /\ pc' = "run"
    /\ UNCHANGED <<sema_vars, prog, blocks, cfgs, gencode, text, code, global_variables,
                   dead_code, labeled_code, defs, index, fi, changed, worklist,
                   bb, key, current_defs>>

(* both machines execute their next instruction, up to MaxSteps times *)
InterpretStep ==
    /\ pc = "run"
    /\ IF steps < MaxSteps /\ (vm_gen.status = "run" \/ vm_opt.status = "run")
       THEN /\ vm_gen' = ExecStep(gencode, vm_gen)
            /\ vm_opt' = ExecStep(code, vm_opt)
            /\ steps' = steps + 1
            /\ pc' = pc
       ELSE /\ pc' = "halted"
            /\ UNCHANGED <<vm_gen, vm_opt, steps>>
    /\ UNCHANGED <<sema_vars, prog, blocks, cfgs, gencode, text, code, global_variables,
                   dead_code, labeled_code, defs, index, fi, changed, worklist,
                   bb, key, current_defs>>

Next ==
    \/ GenerateCode
    \/ OptimizeBegin
    \/ NumberInstructions
    \/ ComputeRDGenKill
    \/ ComputeRDInOutInit
    \/ ComputeRDInOutStep
    \/ ConstantPropagationInit
    \/ ConstantPropagationStep
    \/ ComputeLVUseDef
    \/ ComputeLVInOutInit
    \/ ComputeLVInOutStep
    \/ DeadcodeElimination
    \/ AppendOptimizedCode
    \/ InterpretBegin
    \/ InterpretStep

Init == InitWith(Programs)

Spec == Init /\ [][Next]_vars

(***************************************************************************)
(* The semantic analyser as a state machine (the driver of uc_sema.py):    *)
(* sema.visit(ast) is visit_Program, which opens the global scope, visits  *)
(* the global declarations one per step and closes the scope.  A failed    *)
(* _assert_semantic ends the run in "rejected", an uncaught exception in   *)
(* "sema_crashed".                                                         *)
(***************************************************************************)
CompilerIdle ==
    /\ blocks = CodeGenerator.blocks
    /\ cfgs = <<>>
    /\ gencode = <<>>
    /\ text = <<>>
    /\ code = <<>>
    /\ global_variables = <<>>
    /\ dead_code = {}
    /\ labeled_code = <<>>
    /\ defs = <<>>
    /\ index = 1
    /\ fi = 0
    /\ changed = <<>>
    /\ worklist = <<>>
    /\ bb = None
    /\ key = 0
    /\ current_defs = {}
    /\ vm_gen = Machine(<<>>)
    /\ vm_opt = Machine(<<>>)
    /\ steps = 0

compiler_vars ==
    <<blocks, cfgs, gencode, text, code, global_variables, dead_code, labeled_code,
      defs, index, fi, changed, worklist, bb, key, current_defs, vm_gen, vm_opt, steps>>

SemaInit ==
    /\ prog \in SemaPrograms
    /\ pc = "sema"
    /\ sema = Visitor
    /\ gdecl = 0
    /\ saved = <<>>
    /\ CompilerIdle

(* visit_Program: self.symtab.beginscope() *)
SemaBegin ==
    /\ pc = "sema"
    /\ gdecl = 0
    /\ sema' = [sema EXCEPT !.symtab = beginscope(@)]
    /\ gdecl' = 1
    /\ UNCHANGED <<prog, pc, saved, compiler_vars>>

(* visit_Program: one iteration of `for _decl in node.gdecls` *)
SemaVisitDecl ==
    /\ pc = "sema"
    /\ gdecl \in 1..Len(prog.gdecls)
    /\ \E v \in {sema_visit(sema, prog.gdecls[gdecl], <<item("gdecls", gdecl)>>)} :
          /\ sema' = v
          /\ pc' = IF v.err = 0 THEN "sema"
                   ELSE IF v.err > 0 THEN "rejected" ELSE "sema_crashed"
    /\ gdecl' = gdecl + 1
    /\ UNCHANGED <<prog, saved, compiler_vars>>

(* visit_Program: self.symtab.endscope() *)
SemaEnd ==
    /\ pc = "sema"
    /\ gdecl = Len(prog.gdecls) + 1
    /\ sema' = [sema EXCEPT !.symtab = endscope(@)]
    /\ pc' = "analysed"
    /\ UNCHANGED <<prog, gdecl, saved, compiler_vars>>

SemaNext == SemaBegin \/ SemaVisitDecl \/ SemaEnd

SemaSpec == SemaInit /\ [][SemaNext]_vars

(***************************************************************************)
(* The symbol table on its own, under any sequence of its operations.      *)
(* saved keeps, for every open scope, what lookup, lookup_args and         *)
(* declared answered just before its beginscope, and whether every add     *)
(* made while it was the innermost scope used the default scp.             *)
(***************************************************************************)
MaxScopes == 2

MaxBindings == 3

SymNames == {"a", "b"}

SymValues == {"int", "float"}

(* declared reads self.scope[-1]: with no scope open it raises IndexError, *)
(* written 1 here                                                          *)
(* the number of bindings the table holds, over all names *)
RECURSIVE Bindings(_, _)
Bindings(st, names) ==
    IF names = {} THEN 0
    ELSE LET n == CHOOSE n \in names : TRUE
         IN Len(chain_of(st.table, n)) + Bindings(st, names \ {n})

Answers(st) ==
    [n \in SymNames |->
        <<symtab_lookup(st, n), lookup_args(st, n),
          IF st.scope = <<>> THEN 1 ELSE declared(st, n)>>]

SymInit ==
    /\ prog = Program(<<>>)
    /\ pc = "symtab"
    /\ sema = Visitor
    /\ gdecl = 0
    /\ saved = <<>>
    /\ CompilerIdle

SymBeginscope ==
    /\ pc = "symtab"
    /\ Len(sema.symtab.scope) < MaxScopes
    /\ sema' = [sema EXCEPT !.symtab = beginscope(@)]
    /\ saved' = Append(saved, [answers |-> Answers(sema.symtab), default |-> TRUE])
    /\ UNCHANGED <<prog, pc, gdecl, compiler_vars>>

(* add(name, value): a variable, with the default scp *)
SymAdd ==
    /\ pc = "symtab"
    /\ sema.symtab.scope # <<>>
    /\ Bindings(sema.symtab, SymNames) < MaxBindings
    /\ \E name \in SymNames, value \in SymValues :
          sema' = [sema EXCEPT !.symtab = add(@, name, value, NoArgs, 1)]
    /\ UNCHANGED <<prog, pc, gdecl, saved, compiler_vars>>

(* add(name, value, args, scp=-2): the name of a function *)
SymAddBelow ==
    /\ pc = "symtab"
    /\ Len(sema.symtab.scope) >= 2
    /\ Bindings(sema.symtab, SymNames) < MaxBindings
    /\ \E name \in SymNames, value \in SymValues :
          sema' = [sema EXCEPT !.symtab = add(@, name, value, <<>>, 2)]
    /\ saved' = [saved EXCEPT ![Len(saved)].default = FALSE]
    /\ UNCHANGED <<prog, pc, gdecl, compiler_vars>>

(* gdecl records what the last endscope had to undo: 2 when a name of the  *)
(* scope shadowed an earlier binding, 1 when it held names, 0 when empty   *)
SymEndscope ==
    /\ pc = "symtab"
    /\ sema.symtab.scope # <<>>
    /\ sema' = [sema EXCEPT !.symtab = endscope(@)]
    /\ saved' = SubSeq(saved, 1, Len(saved) - 1)
    /\ gdecl' = IF \E n \in Range(sema.symtab.scope[Len(sema.symtab.scope)]) :
                       Len(chain_of(sema.symtab.table, n)) >= 2
                THEN 2
                ELSE IF sema.symtab.scope[Len(sema.symtab.scope)] # <<>> THEN 1 ELSE 0
    /\ UNCHANGED <<prog, pc, compiler_vars>>

SymNext == SymBeginscope \/ SymAdd \/ SymAddBelow \/ SymEndscope

SymSpec == SymInit /\ [][SymNext]_vars

(***************************************************************************)
(* Properties                                                              *)
(***************************************************************************)
Compiled == pc \in {"done", "run", "halted"}

(* the names an instruction writes: the target of a store, literal, load,  *)
(* call, not_, sitofp or fptosi, the target of an elem or of a binary      *)
(* operation, the parameter temporaries of a define                        *)
WrittenTargets(inst) ==
    IF startswith(inst.op, "define") THEN Range(inst.ps)
    ELSE IF startswith(inst.op, "elem") \/ is_binary_op(inst) THEN {inst.a3}
    ELSE IF \E p \in {"store", "literal", "load", "call", "not_", "sitofp", "fptosi"} :
               startswith(inst.op, p)
    THEN {inst.a2}
    ELSE {}

IsLabel(inst) == SubSeq(inst.op, Len(inst.op), Len(inst.op)) = ":"

IsTerminator(inst) == inst.op \in {"jump", "cbranch"}

(* the instructions dead-code elimination must keep *)
Protected(inst) ==
    \/ \E p \in {"print", "return", "param", "elem", "sitofp", "fptosi", "define",
                 "alloc"} : startswith(inst.op, p)
    \/ inst.op \in {"cbranch", "jump", "entry"}
    \/ IsLabel(inst)

(* the instructions dead-code elimination may drop *)
Removable(inst) ==
    \/ \E p \in {"store", "literal", "load", "call"} : startswith(inst.op, p)
    \/ is_binary_op(inst)

(* C1: whenever the run of the generated code and the run of the optimised *)
(* code both end, they have printed the same lines and main has returned   *)
(* the same value.                                                         *)
C1_SemanticPreservation ==
    (pc = "halted" /\ vm_gen.status = "halt" /\ vm_opt.status = "halt")
        => (vm_opt.out = vm_gen.out /\ vm_opt.ret = vm_gen.ret)

(* the store whose source temporary is written only by literals of value v *)
StoresLiteral(inst, v) ==
    /\ startswith(inst.op, "store")
    /\ inst.a1 \in DOMAIN defs
    /\ \A sd \in Range(defs[inst.a1]) :
          startswith(labeled_code[sd].op, "literal") /\ labeled_code[sd].val = v

(* C2: a step of constant propagation rewrites the load at `key` into a    *)
(* literal of value v only if every definition of the loaded name in the   *)
(* running set is a store of a literal of value v.                         *)
C2_ConstantPropagationSafety ==
    [][(pc = "cp" /\ bb # None /\ labeled_code' # labeled_code)
          => \A d \in relevant_defs(defs, current_defs, labeled_code[key].a1) :
                StoresLiteral(labeled_code[d], labeled_code'[key].val)]_vars

(* the successors of instruction i of a function in execution order *)
Successors(lc, i) ==
    IF lc[i].op = "jump" THEN {find_label(lc, 1, lc[i].a1)} \ {0}
    ELSE IF lc[i].op = "cbranch"
    THEN {find_label(lc, 1, lc[i].a2), find_label(lc, 1, lc[i].a3)} \ {0}
    ELSE IF startswith(lc[i].op, "return") THEN {}
    ELSE {i + 1} \cap DOMAIN lc

(* one round of propagation of the definitions that reach each instruction *)
(* along the execution paths from the function entry; 0 marks the entry;   *)
(* preds[n] are the instructions n follows, written[n] the names n writes  *)
ReachRound(preds, written, X) ==
    [n \in DOMAIN X |->
        (IF n = 1 THEN {0} ELSE {})
        \cup UNION {IF 0 \in X[p]
                    THEN {d \in X[p] : d = 0 \/ written[d] \cap written[p] = {}}
                         \cup (IF written[p] # {} THEN {p} ELSE {})
                    ELSE {} : p \in preds[n]}]

RECURSIVE ReachFix(_, _, _)
ReachFix(preds, written, X) ==
    LET Y == ReachRound(preds, written, X)
    IN IF Y = X THEN X ELSE ReachFix(preds, written, Y)

(* the definitions that reach each instruction along some execution path *)
Reaching(lc) ==
    LET succ == [q \in DOMAIN lc |-> Successors(lc, q)]
        preds == [n \in DOMAIN lc |-> {q \in DOMAIN lc : n \in succ[q]}]
        written == [n \in DOMAIN lc |-> WrittenTargets(lc[n])]
    IN ReachFix(preds, written, [n \in DOMAIN lc |-> {}])

(* C3: at every instruction constant propagation visits, every definition  *)
(* that reaches the instruction along an execution path is in the running  *)
(* set.                                                                    *)
C3_ReachingDefinitionsSound ==
    (pc = "cp" /\ bb # None)
        => (Reaching(labeled_code)[key] \ {0}) \subseteq current_defs

(* C4: only store, literal, load, call and binary-operation instructions   *)
(* are marked dead, and the optimised code holds every print, cbranch,     *)
(* jump, return, param, elem, cast, label, define, entry and alloc of the  *)
(* generated code, in the same order.                                      *)
C4_DeadCodeConservatism ==
    /\ pc = "append" =>
          \A k \in dead_code : Removable(labeled_code[k]) /\ ~Protected(labeled_code[k])
    /\ Compiled => SelectSeq(code, Protected) = SelectSeq(gencode, Protected)

C4_Witness ==
    /\ pc = "done"
    /\ Len(code) < Len(gencode)
    /\ \E i \in 1..Len(code) : startswith(code[i].op, "print")
    /\ \E i \in 1..Len(code) : code[i].op = "cbranch"

(* the generated code of the function whose define is at index i *)
SlotOf(ir, fn) ==
    LET rets == {i \in fn..function_end(ir, fn) :
                    startswith(ir[i].op, "return_") /\ ir[i].op # "return_void"}
    IN IF rets = {} THEN "" ELSE ir[Min(rets)].a1

(* C5: when the generated code executes the store into the return slot of  *)
(* the running function, the next instruction it executes is jump %exit.   *)
C5_ReturnLowering ==
    [][(/\ pc = "run"
        /\ vm_gen.status = "run"
        /\ vm_gen.ip \in 1..Len(gencode)
        /\ startswith(gencode[vm_gen.ip].op, "store")
        /\ gencode[vm_gen.ip].a2 = SlotOf(gencode, vm_gen.fn)
        /\ vm_gen'.ip # vm_gen.ip)
          => (/\ vm_gen'.ip \in 1..Len(gencode)
              /\ gencode[vm_gen'.ip].op = "jump"
              /\ gencode[vm_gen'.ip].a1 = "%exit")]_vars

(* the blocks of the function cfg other than its entry and exit blocks *)
InnerBlocks(cfg) ==
    LET ch == Chain(blocks, cfg)
    IN {ch[j] : j \in 2..(Len(ch) - 1)}

(* C6: every block other than the entry and exit blocks begins with its    *)
(* label instruction and holds exactly one terminator, its last            *)
(* instruction.                                                            *)
C6_TerminatorIntegrity ==
    pc = "opt" =>
        \A f \in 1..Len(cfgs) : \A b \in InnerBlocks(cfgs[f]) :
            LET is == blocks[b].instructions
            IN /\ Len(is) >= 2
               /\ is[1].op = blocks[b].label \o ":"
               /\ {i \in 1..Len(is) : IsTerminator(is[i])} = {Len(is)}

(* the block b holds a jump or cbranch to its own label *)
JumpsToItself(b) ==
    \E i \in 1..Len(blocks[b].instructions) :
        LET inst == blocks[b].instructions[i]
            own == "%" \o blocks[b].label
        IN \/ inst.op = "jump" /\ inst.a1 = own
           \/ inst.op = "cbranch" /\ own \in {inst.a2, inst.a3}

(* C7: every block other than the function entry has a predecessor, and a  *)
(* block lists itself as predecessor only if it jumps to itself.           *)
C7_PredecessorIntegrity ==
    pc = "opt" =>
        \A f \in 1..Len(cfgs) :
            LET ch == Chain(blocks, cfgs[f])
            IN \A j \in 2..Len(ch) :
                  /\ Len(blocks[ch[j]].predecessors) >= 1
                  /\ InSeq(ch[j], blocks[ch[j]].predecessors) => JumpsToItself(ch[j])

(* the names of the functions of a program, in definition order *)
FuncNames(p) ==
    LET fs == SelectSeq(p.gdecls, LAMBDA d : d.k = "FuncDef")
    IN [i \in 1..Len(fs) |-> fs[i].name]

(* C8: the chain of every function holds exactly one block labelled with   *)
(* the function name, the first, and exactly one labelled %exit, the last; *)
(* the exit block has no branch and no next_block and is the only block    *)
(* with a return instruction.                                              *)
C8_SingleEntryExit ==
    pc = "opt" =>
        \A f \in 1..Len(cfgs) :
            LET ch == Chain(blocks, cfgs[f])
                last == ch[Len(ch)]
            IN /\ {j \in 1..Len(ch) : blocks[ch[j]].label = "%" \o FuncNames(prog)[f]} = {1}
               /\ {j \in 1..Len(ch) : blocks[ch[j]].label = "%exit"} = {Len(ch)}
               /\ blocks[last].branch = None /\ blocks[last].next_block = None
               /\ {j \in 1..Len(ch) :
                      \E i \in 1..Len(blocks[ch[j]].instructions) :
                          startswith(blocks[ch[j]].instructions[i].op, "return")}
                    = {Len(ch)}

(* the instruction now numbered i is the generated one, or the literal     *)
(* constant propagation has put in the place of a load of the same target  *)
SameOrPropagated(now, generated) ==
    \/ now = generated
    \/ /\ startswith(now.op, "literal") /\ startswith(generated.op, "load")
       /\ now.a2 = generated.a2

Numbered == pc \in {"genkill", "rd_init", "rd", "cp", "lv_init", "lv", "append"}

(* C9: once a function is numbered, and still after constant propagation,  *)
(* its instructions carry the indices 1..N in next_block order, and i is   *)
(* in defs[name] exactly when the instruction at i writes name, each index *)
(* once per list.                                                          *)
C9_DefMapConsistency ==
    Numbered =>
        LET ch == Chain(blocks, cfgs[fi])
            generated == EmitBlocks(blocks, cfgs[fi])
            N == Len(generated)
            dom == [j \in 1..Len(ch) |-> DOMAIN blocks[ch[j]].numerated_code]
            written == [i \in DOMAIN labeled_code |-> WrittenTargets(labeled_code[i])]
        IN /\ DOMAIN labeled_code = 1..N
           /\ \A i \in 1..N : SameOrPropagated(labeled_code[i], generated[i])
           /\ \A j \in 1..Len(ch) :
                 /\ Cardinality(dom[j]) = Len(blocks[ch[j]].instructions)
                 /\ dom[j] \subseteq 1..N
                 /\ \A k \in dom[j] : blocks[ch[j]].numerated_code[k] = labeled_code[k]
                 /\ \A l \in (j + 1)..Len(ch) :
                       (dom[j] # {} /\ dom[l] # {}) => Max(dom[j]) < Min(dom[l])
           /\ UNION Range(written) \subseteq DOMAIN defs
           /\ \A name \in DOMAIN defs :
                 /\ Cardinality(Range(defs[name])) = Len(defs[name])
                 /\ Range(defs[name]) = {i \in 1..N : name \in written[i]}

C9_Witness ==
    /\ pc = "lv_init"
    /\ \E i \in DOMAIN labeled_code :
          labeled_code[i] # EmitBlocks(blocks, cfgs[fi])[i]
    /\ \E name \in DOMAIN defs : Len(defs[name]) >= 3

(* the position in the generated code matched with each optimised          *)
(* instruction when both lists are read from left to right; -1 if none     *)
Matching ==
    LET m[i \in 0..Len(code)] ==
            IF i = 0 THEN 0
            ELSE LET p == m[i - 1]
                     c == {j \in (p + 1)..Len(gencode) :
                              SameOrPropagated(code[i], gencode[j])}
                 IN IF p = -1 \/ c = {} THEN -1 ELSE Min(c)
    IN m[Len(code)]

(* C10: the optimised list is not longer than the generated list, and it   *)
(* is the generated list with instructions deleted and loads replaced by   *)
(* literals, the surviving instructions in their order.                    *)
C10_SpeedupMonotonicity ==
    Compiled => (Len(code) <= Len(gencode) /\ Matching # -1)

C10_Witness ==
    /\ pc = "done"
    /\ Len(cfgs) >= 2
    /\ Len(code) < Len(gencode)
    /\ \E i \in 1..Len(code) : startswith(code[i].op, "literal") /\ code[i] \notin Range(gencode)

(***************************************************************************)
(* Lexical scoping read off the syntax tree, independently of the symbol   *)
(* table.  A position is the path of children() names from the Program.    *)
(***************************************************************************)
RECURSIVE NodeAt(_, _)
NodeAt(node, path) ==
    IF path = <<>> THEN node
    ELSE LET kids == children(node)
             i == CHOOSE i \in 1..Len(kids) : kids[i][1] = Head(path)
         IN NodeAt(kids[i][2], Tail(path))

(* the names a global declaration introduces in the scope of the Program *)
GlobalNames(g) ==
    IF g.k = "GlobalDecl" THEN {g.declaration[i].name : i \in 1..Len(g.declaration)}
    ELSE {g.name}

(* the names node brings into scope for what sits in its child called next *)
DeclaredBy(node, next) ==
    CASE node.k = "Program" ->
            UNION {GlobalNames(node.gdecls[j]) :
                      j \in {j \in 1..Len(node.gdecls) :
                                \E i \in j..Len(node.gdecls) : next = item("gdecls", i)}}
      [] node.k \in {"FuncDef", "FuncDecl"} ->
            {node.params[i].name : i \in 1..Len(node.params)}
      [] node.k = "Compound" ->
            {node.decls[j].name :
                j \in {j \in 1..Len(node.decls) :
                          \/ \E i \in j..Len(node.decls) : next = item("decls", i)
                          \/ \E i \in 1..Len(node.statmts) : next = item("statmts", i)}}
      [] OTHER -> {}

(* some scope that encloses the position declares name ahead of it *)
LexicallyBound(name, path) ==
    \E n \in 0..(Len(path) - 1) :
        name \in DeclaredBy(NodeAt(prog, SubSeq(path, 1, n)), path[n + 1])

IDEvents == {i \in 1..Len(sema.annotated) : sema.annotated[i].ev = "ID"}

(* C11: an identifier reference is resolved (scope and uc_type set) only   *)
(* when a scope that is still open at the reference declares its name; a   *)
(* name that is not declared, or whose only declaring scope has ended, is  *)
(* rejected with `<name> is not defined` and a non-zero exit code, and     *)
(* nothing is generated.                                                   *)
C11_IdentifierResolution ==
    /\ \A i \in IDEvents :
          /\ LexicallyBound(sema.annotated[i].name, sema.annotated[i].coord)
          /\ sema.annotated[i].uc_type # "None"
    /\ pc = "rejected" /\ sema.err = 1 =>
          /\ ~LexicallyBound(NodeAt(prog, sema.coord).name, sema.coord)
          /\ sema.stdout = "SemanticError: " \o NodeAt(prog, sema.coord).name
                              \o " is not defined"
          /\ sema.exit_code # 0
          /\ gencode = <<>>

(* the register reg holds the literal v at index i of ir: the last         *)
(* instruction before i that writes reg is a literal of value v            *)
HoldsLiteral(ir, i, reg, v) ==
    \E j \in 1..(i - 1) :
       /\ startswith(ir[j].op, "literal") /\ ir[j].a2 = reg /\ ir[j].val = v
       /\ \A k \in (j + 1)..(i - 1) : reg \notin WrittenTargets(ir[k])

(* C12: the optimised code of `int main(){int a; a = 2 + 3; print(a);      *)
(* return a;}` contains literal_int 5 and no add_int whose operands hold   *)
(* 2 and 3.                                                                *)
C12_ConstantFoldingScenario ==
    (Compiled /\ prog = ConstantFoldingScenario) =>
        /\ \E i \in 1..Len(code) : code[i].op = "literal_int" /\ code[i].val = 5
        /\ ~\E i \in 1..Len(code) :
              /\ code[i].op = "add_int"
              /\ HoldsLiteral(code, i, code[i].a1, 2)
              /\ HoldsLiteral(code, i, code[i].a2, 3)

(* the names an instruction reads *)
ReadOperands(inst) ==
    IF is_binary_op(inst) \/ startswith(inst.op, "elem") THEN {inst.a1, inst.a2}
    ELSE IF \/ \E p \in {"store", "load", "not_", "print", "sitofp", "fptosi", "param",
                         "cbranch"} : startswith(inst.op, p)
            \/ startswith(inst.op, "return") /\ inst.op # "return_void"
    THEN {inst.a1}
    ELSE {}

(* the stores of block b into a local slot that no instruction of b reads  *)
(* and that is not live out of b                                           *)
DeadStores(b) ==
    {k \in DOMAIN blocks[b].numerated_code :
        LET inst == blocks[b].numerated_code[k]
        IN /\ startswith(inst.op, "store")
           /\ startswith(inst.a2, "%")
           /\ inst.a2 \notin blocks[b].out_set
           /\ \A j \in DOMAIN blocks[b].numerated_code :
                 inst.a2 \notin ReadOperands(blocks[b].numerated_code[j])}

StoresTo(ir, slot) == {i \in 1..Len(ir) : startswith(ir[i].op, "store") /\ ir[i].a2 = slot}

(* the optimised code stores a register holding the literal v into the     *)
(* return slot of main                                                     *)
ReturnsLiteral(ir, v) ==
    \E i \in StoresTo(ir, SlotOf(ir, find_define(ir, "@main"))) :
        HoldsLiteral(ir, i, ir[i].a1, v)

DeadStoresRemoved ==
    pc = "append" =>
        \A b \in Range(Chain(blocks, cfgs[fi])) :
            \A k \in DeadStores(b) :
               /\ k \in dead_code
               /\ \A i \in 1..Len(appendOptimizedCode(<<>>, labeled_code, dead_code)) :
                     appendOptimizedCode(<<>>, labeled_code, dead_code)[i]
                        # blocks[b].numerated_code[k]

(* C13, as the code has it: a store into a local slot that no instruction  *)
(* of its block reads and that is not live out of the block is absent from *)
(* the optimised code; in `int main(){int x = 7; int y; y = 10; return     *)
(* x;}` the store to %y is absent and the value returned, 7, is retained,  *)
(* and the store to %x is absent as well, its only load having become the  *)
(* literal 7.                                                              *)
C13_DeadStoreElimination ==
    /\ DeadStoresRemoved
    /\ (Compiled /\ prog = DeadStoreScenario) =>
          /\ StoresTo(code, "%y") = {}
          /\ StoresTo(code, "%x") = {}
          /\ ReturnsLiteral(code, 7)

C13_Witness ==
    /\ pc = "append"
    /\ prog = DeadStoreScenario
    /\ StoresTo(labeled_code, "%y") # {}
    /\ \E b \in Range(Chain(blocks, cfgs[fi])) : StoresTo(labeled_code, "%y") \subseteq DeadStores(b)

(* C13 as stated: the store to %y is absent from the optimised code while  *)
(* the store to %x and the value returned, 7, are retained.                *)
C13_DeadStoreKeepsLiveStore ==
    /\ DeadStoresRemoved
    /\ (Compiled /\ prog = DeadStoreScenario) =>
          /\ StoresTo(code, "%y") = {}
          /\ StoresTo(code, "%x") # {}
          /\ ReturnsLiteral(code, 7)

(* C14: an endscope that closes a scope into which names were added with   *)
(* the default scp only leaves lookup, lookup_args and declared of every   *)
(* name as they were just before the matching beginscope.                  *)
C14_ScopeRoundTrip ==
    [][(/\ pc = "symtab"
        /\ Len(sema'.symtab.scope) < Len(sema.symtab.scope)
        /\ saved[Len(saved)].default)
          => Answers(sema'.symtab) = saved[Len(saved)].answers]_vars

(* an endscope has given a shadowed name its previous binding back, and    *)
(* another name, bound in an ended scope only, is not declared             *)
C14_Witness ==
    /\ pc = "symtab"
    /\ gdecl = 2
    /\ sema.symtab.scope # <<>>
    /\ \E n \in SymNames : symtab_lookup(sema.symtab, n) # "None"
    /\ \E n \in SymNames :
          /\ n \in DOMAIN sema.symtab.table
          /\ declared(sema.symtab, n) = 0

(* the names declared ahead of the declaration at path in the scope it     *)
(* belongs to: for a global declaration and for the name of a function,    *)
(* the scope of the Program; for a parameter, the scope of its function;   *)
(* for a local declaration, the scope of its Compound                      *)
EarlierInScope(path) ==
    LET n == Len(path)
        parent == NodeAt(prog, SubSeq(path, 1, n - 1))
        globals(i) == UNION {GlobalNames(prog.gdecls[j]) : j \in 1..(i - 1)}
    IN CASE n = 1 ->
              UNION {globals(i) : i \in {i \in 1..Len(prog.gdecls) :
                                            path[1] = item("gdecls", i)}}
         [] parent.k = "GlobalDecl" ->
              UNION {globals(i) : i \in {i \in 1..Len(prog.gdecls) :
                                            path[1] = item("gdecls", i)}}
                 \cup {parent.declaration[j].name :
                          j \in {j \in 1..Len(parent.declaration) :
                                    \E k \in (j + 1)..Len(parent.declaration) :
                                       path[n] = item("declaration", k)}}
         [] parent.k \in {"FuncDef", "FuncDecl"} ->
              {parent.params[j].name :
                  j \in {j \in 1..Len(parent.params) :
                            \E k \in (j + 1)..Len(parent.params) :
                               path[n] = item("params", k)}}
         [] parent.k = "Compound" ->
              {parent.decls[j].name :
                  j \in {j \in 1..Len(parent.decls) :
                            \E k \in (j + 1)..Len(parent.decls) :
                               path[n] = item("decls", k)}}
         [] OTHER -> {}

Redeclared(path) == NodeAt(prog, path).name \in EarlierInScope(path)

DeclEvents ==
    {i \in 1..Len(sema.annotated) : sema.annotated[i].ev \in {"Decl", "FuncDecl"}}

(* C15: a declaration of a variable, a parameter or a function is rejected *)
(* with error 25 exactly when its name is already bound by a declaration   *)
(* of the scope it belongs to; a name bound in an outer scope only, and a  *)
(* function whose parameter has the name of the function, are accepted.    *)
C15_Redeclaration ==
    /\ \A i \in DeclEvents : ~Redeclared(sema.annotated[i].coord)
    /\ pc = "rejected" /\ sema.err = 25 => Redeclared(sema.coord)

RECURSIVE ReturnPaths(_, _)
(* the positions of the Return statements below node, which sits at path *)
ReturnPaths(node, path) ==
    IF node.k = "Return" THEN {path}
    ELSE LET kids == children(node)
         IN UNION {ReturnPaths(kids[i][2], Append(path, kids[i][1])) : i \in 1..Len(kids)}

(* the type of the expression of the Return at path: the one the analyser  *)
(* gave it when it has visited the statement, else the one a literal or a  *)
(* missing expression has by itself ("?" when only a visit can tell)       *)
ReturnType(path) ==
    LET seen == {i \in 1..Len(sema.annotated) :
                    sema.annotated[i].ev = "Return" /\ sema.annotated[i].coord = path}
        expr == NodeAt(prog, path).expr
    IN IF seen # {} THEN sema.annotated[CHOOSE i \in seen : TRUE].uc_type
       ELSE IF expr.k = "None" THEN "None"
       ELSE IF expr.k = "Constant" THEN expr.type
       ELSE "?"

(* the function at path breaks the rule of return typing: a return of      *)
(* another type than the declared one (a value in a void function, no      *)
(* value in a non-void one), or no return at all in a non-void function    *)
ReturnViolation(path) ==
    LET f == NodeAt(prog, path)
        returns == ReturnPaths(f.compound_statement, Append(path, "compound_statement"))
    IN \/ \E r \in returns :
             ReturnType(r) \notin {"?", IF f.type = "void" THEN "None" ELSE f.type}
       \/ f.type # "void" /\ returns = {}

FuncDefEvents == {i \in 1..Len(sema.annotated) : sema.annotated[i].ev = "FuncDef"}

(* the global declaration the analyser stopped in *)
Stopped == <<item("gdecls", gdecl - 1)>>

(* C16: a function definition is accepted only when every return of its    *)
(* body has the declared type and a non-void function has a return; a      *)
(* function that breaks the rule ends in error 24, never in an internal    *)
(* failure, and error 24 is given to such functions only.                  *)
C16_ReturnTyping ==
    /\ \A i \in FuncDefEvents : ~ReturnViolation(sema.annotated[i].coord)
    /\ pc = "sema_crashed" /\ NodeAt(prog, Stopped).k = "FuncDef" => ~ReturnViolation(Stopped)
    /\ pc = "rejected" /\ sema.err = 24 => ReturnViolation(Stopped)

(* the declaration a callee name stands for at path: none (NoneNode) when  *)
(* a parameter or a local declaration of an enclosing scope has the name   *)
(* or when no global declaration ahead of the call has it, else the last   *)
(* such global declaration                                                 *)
CalleeDecl(name, path) ==
    LET local == \E n \in 1..(Len(path) - 1) :
                    name \in DeclaredBy(NodeAt(prog, SubSeq(path, 1, n)), path[n + 1])
        ahead == {j \in 1..Len(prog.gdecls) :
                     /\ name \in GlobalNames(prog.gdecls[j])
                     /\ \E i \in j..Len(prog.gdecls) : path[1] = item("gdecls", i)}
        g == prog.gdecls[Max(ahead)]
    IN IF local \/ ahead = {} THEN NoneNode
       ELSE IF g.k = "FuncDef" THEN g
       ELSE g.declaration[CHOOSE i \in 1..Len(g.declaration) : g.declaration[i].name = name]

IsFunction(d) == d.k \in {"FuncDef", "FuncDecl"}

(* the type of an argument, "?" when only a visit can tell *)
ArgType(expr) == IF expr.k = "Constant" THEN expr.type ELSE "?"

ArgumentsMatch(call, d) ==
    /\ Len(call.arguments) = Len(d.params)
    /\ \A k \in 1..Len(call.arguments) :
          ArgType(call.arguments[k]) \in {"?", d.params[k].type}

CallEvents == {i \in 1..Len(sema.annotated) : sema.annotated[i].ev = "FuncCall"}

(* C17: a call is accepted only when its callee is a function, it has as   *)
(* many arguments as the function has parameters and every argument has    *)
(* the type of the parameter at its position, whether it has zero, one or  *)
(* several arguments; error 16 is given for a callee that is no function.  *)
C17_CallChecking ==
    /\ \A i \in CallEvents :
          LET call == NodeAt(prog, sema.annotated[i].coord)
              d == CalleeDecl(call.declarator.name, sema.annotated[i].coord)
          IN IsFunction(d) /\ ArgumentsMatch(call, d)
    /\ pc = "rejected" /\ sema.err = 16 =>
          ~IsFunction(CalleeDecl(NodeAt(prog, sema.coord).declarator.name, sema.coord))

(* the loops that enclose the position path, as prefixes of path *)
LoopAncestors(path) ==
    {n \in 0..(Len(path) - 1) : NodeAt(prog, SubSeq(path, 1, n)).k \in {"While", "For"}}

RECURSIVE BreakPaths(_, _)
(* the positions of the Break statements below node, which sits at path *)
BreakPaths(node, path) ==
    IF node.k = "Break" THEN {path}
    ELSE LET kids == children(node)
         IN UNION {BreakPaths(kids[i][2], Append(path, kids[i][1])) : i \in 1..Len(kids)}

BreakEvents == {i \in 1..Len(sema.annotated) : sema.annotated[i].ev = "Break"}

(* C18: a break is accepted exactly when a While or a For encloses it, at  *)
(* any depth: a break outside every loop is rejected with error 8, and the *)
(* analysis of a loop that holds a break does not fail on the loop.        *)
C18_BreakValidity ==
    /\ \A i \in BreakEvents : LoopAncestors(sema.annotated[i].coord) # {}
    /\ pc = "rejected" /\ sema.err = 8 => LoopAncestors(sema.coord) = {}
    /\ pc = "sema_crashed" =>
          \A n \in LoopAncestors(sema.coord) :
             BreakPaths(NodeAt(prog, SubSeq(sema.coord, 1, n)), SubSeq(sema.coord, 1, n)) = {}

(* computeLV_in_out has returned for the function fi *)
LVReturned == (pc = "lv" /\ worklist = <<>>) \/ pc = "append"

(* the blocks whose in_set flows into the out_set of block b *)
LVSuccessors(b) ==
    IF blocks[b].kind = "BasicBlock"
    THEN {IF blocks[b].branch # None THEN blocks[b].branch ELSE blocks[b].next_block}
    ELSE {blocks[b].taken, blocks[b].fall_through}

(* C19: when computeLV_in_out returns, every block of the function has     *)
(* in_set = used \cup (out_set \ defined); the out_set of %exit is the set *)
(* of the global variable names and the out_set of every other block is    *)
(* the union of the in_set of its successors.                              *)
C19_LiveVariableFixpoint ==
    LVReturned =>
        \A b \in Range(Chain(blocks, cfgs[fi])) :
           /\ blocks[b].in_set = blocks[b].used \cup (blocks[b].out_set \ blocks[b].defined)
           /\ IF blocks[b].label = "%exit"
              THEN blocks[b].out_set = Range(global_variables)
              ELSE blocks[b].out_set = UNION {blocks[s].in_set : s \in LVSuccessors(b)}

(* computeRD_in_out has returned for the function fi *)
RDReturned == pc = "rd" /\ changed = <<>>

(* C20: when computeRD_in_out returns, every block of the function has     *)
(* in_RD = the union of out_RD over its predecessors and                   *)
(* out_RD = gen_defs \cup (in_RD \ kill_defs).                             *)
C20_ReachingDefinitionsFixpoint ==
    RDReturned =>
        \A b \in Range(Chain(blocks, cfgs[fi])) :
           /\ blocks[b].in_RD = UNION {blocks[p].out_RD : p \in Range(blocks[b].predecessors)}
           /\ blocks[b].out_RD = blocks[b].gen_defs \cup (blocks[b].in_RD \ blocks[b].kill_defs)

(***************************************************************************)
(* The optimiser is one sequential Python program: while an iteration of a *)
(* worklist loop is enabled the interpreter takes it, so the steps of the  *)
(* two loops are weakly fair.                                              *)
(***************************************************************************)
LiveSpec ==
    /\ Spec
    /\ WF_vars(ComputeRDInOutInit)
    /\ WF_vars(ComputeRDInOutStep)
    /\ WF_vars(ComputeLVInOutInit)
    /\ WF_vars(ComputeLVInOutStep)

(* no worklist holds an unset link, and computeLV_in_out has not failed on *)
(* the successor link of the block it popped                               *)
NoUnsetLink ==
    /\ pc = "rd" => \A i \in 1..Len(changed) : changed[i] \in 1..Len(blocks)
    /\ pc = "lv" => \A i \in 1..Len(worklist) : worklist[i] \in 1..Len(blocks)
    /\ ~(pc = "crashed" /\ worklist # <<>>)

(* C21: the worklist loop of computeRD_in_out and the worklist loop of     *)
(* computeLV_in_out, once entered, eventually empty their worklists and    *)
(* return, and neither reads an unset successor link.                      *)
C21_DataflowTermination ==
    /\ []NoUnsetLink
    /\ (pc = "rd_init") ~> RDReturned
    /\ (pc = "lv_init") ~> (pc = "lv" /\ worklist = <<>>)

(* both loops have returned for a function with a loop: the condition      *)
(* block is reached by a definition generated after it on the chain (the   *)
(* back edge was followed) and a variable is live into it                  *)
C21_Witness ==
    /\ pc = "lv" /\ worklist = <<>>
    /\ \E b \in Range(Chain(blocks, cfgs[fi])) :
          /\ blocks[b].kind = "ConditionBlock"
          /\ \/ startswith(blocks[b].label, "while.cond")
             \/ startswith(blocks[b].label, "for.cond")
          /\ \E p \in Range(blocks[b].predecessors) :
                blocks[p].gen_defs \cap blocks[b].in_RD # {}
                /\ \A d \in blocks[p].gen_defs : \A e \in blocks[b].gen_defs : d > e
          /\ blocks[b].in_set # {}

(* the names that the def-map records as defined at index i *)
DefinedAt(i) == {x \in DOMAIN defs : i \in Range(defs[x])}

(* the indices of a block that hold the last definition in the block of a  *)
(* name of the def-map                                                     *)
LastDefinitions(block) ==
    {i \in DOMAIN block.numerated_code :
        \E x \in DefinedAt(i) :
           \A j \in DOMAIN block.numerated_code : j > i => x \notin DefinedAt(j)}

(* C22: after computeRD_gen_kill, for every instruction recorded in the    *)
(* def-map as defining x at index i, instruction_gen_kill gives gen = {i}  *)
(* and kill = defs[x] \ {i}; for every other instruction it gives empty    *)
(* gen and kill; and gen_defs of a block is the set of the indices of the  *)
(* last definition of each name written in the block.                      *)
C22_InstructionGenKill ==
    pc = "rd_init" =>
        \A b \in Range(Chain(blocks, cfgs[fi])) :
           /\ \A i \in DOMAIN blocks[b].numerated_code :
                 LET r == instruction_gen_kill(defs, blocks[b].numerated_code[i], i)
                 IN IF DefinedAt(i) = {}
                    THEN r.gen = {} /\ r.kill = {}
                    ELSE \A x \in DefinedAt(i) :
                            r.gen = {i} /\ r.kill = Range(defs[x]) \ {i}
           /\ blocks[b].gen_defs = LastDefinitions(blocks[b])

(* the blocks of function f that carry the label named by a jump target *)
Labelled(f, target) ==
    {t \in Range(Chain(blocks, cfgs[f])) :
        blocks[t].label = target \/ "%" \o blocks[t].label = target}

(* the blocks that the last emitted instruction of block b transfers to *)
Transfers(f, b) ==
    LET insts == blocks[b].instructions
        last == insts[Len(insts)]
    IN IF Len(insts) = 0 THEN {}
       ELSE IF last.op = "jump" THEN Labelled(f, last.a1)
       ELSE IF last.op = "cbranch" THEN Labelled(f, last.a2) \cup Labelled(f, last.a3)
       ELSE {}

(* the successor links of block b name the targets of its last instruction *)
LinksFollowTerminator(f, b) ==
    LET insts == blocks[b].instructions
        last == insts[Len(insts)]
    IN Len(insts) > 0 =>
          /\ last.op = "jump" =>
                blocks[b].kind = "BasicBlock" /\ blocks[b].branch \in Labelled(f, last.a1)
          /\ last.op = "cbranch" =>
                /\ blocks[b].kind = "ConditionBlock"
                /\ blocks[b].taken \in Labelled(f, last.a2)
                /\ blocks[b].fall_through \in Labelled(f, last.a3)

(* C23: after code generation, in every function, the branch (taken and    *)
(* fall_through) link of a block that ends in jump (cbranch) is the block  *)
(* it jumps to, the block is in the predecessors of each of its targets,   *)
(* and every predecessor of a block transfers control to it (the block     *)
(* %global that precedes the first function is not counted).               *)
C23_LinksMirrorTransfers ==
    pc = "opt" =>
        \A f \in 1..Len(cfgs) :
           \A b \in Range(Chain(blocks, cfgs[f])) :
              /\ LinksFollowTerminator(f, b)
              /\ \A t \in Transfers(f, b) : b \in Range(blocks[t].predecessors)
              /\ \A p \in Range(blocks[b].predecessors) :
                    blocks[p].label # "%global" => b \in Transfers(f, p)

(* the names of the variables declared at module scope *)
ModuleScopeNames ==
    UNION {GlobalNames(prog.gdecls[i]) :
             i \in {j \in 1..Len(prog.gdecls) : prog.gdecls[j].k = "GlobalDecl"}}

(* code generation has ended, normally or not *)
Generated == pc \in {"opt", "crashed"} /\ worklist = <<>> /\ code = <<>>

(* C24: code generation ends normally, every variable declared at module   *)
(* scope has exactly one global_<type> instruction named @<name> in the    *)
(* text section, and no instruction of a function names the slot %<name>   *)
(* (no function of the programs redeclares a module-scope name).           *)
C24_GlobalDeclarations ==
    Generated =>
        \A n \in ModuleScopeNames :
           /\ pc = "opt"
           /\ Cardinality({i \in 1..Len(text) :
                             startswith(text[i].op, "global_") /\ text[i].a1 = "@" \o n}) = 1
           /\ \A i \in 1..Len(gencode) :
                 "%" \o n \notin {gencode[i].a1, gencode[i].a2, gencode[i].a3}

RECURSIVE Calls(_)
(* the FuncCall nodes at or below node *)
Calls(node) ==
    (IF node.k = "FuncCall" THEN {node} ELSE {})
    \cup LET kids == children(node) IN UNION {Calls(kids[i][2]) : i \in 1..Len(kids)}

(* the numbers of arguments that the calls of the program pass to callee *)
ArgumentCounts(callee) ==
    {Len(c.arguments) : c \in {d \in Calls(prog) : "@" \o d.declarator.name = callee}}

IsParam(inst) == startswith(inst.op, "param_")

IsCall(inst) == startswith(inst.op, "call_")

(* the n param or call instructions emitted last before position i *)
NearestBefore(i, n) ==
    LET before == {j \in 1..(i - 1) : IsParam(gencode[j]) \/ IsCall(gencode[j])}
    IN {j \in before : Cardinality({l \in before : l > j}) < n}

(* C25: code generation of a program with calls ends normally, and the n   *)
(* param or call instructions emitted last before the call instruction of  *)
(* a call with n arguments are n params: a call without arguments emits    *)
(* only its call instruction, and nothing of another call stands between   *)
(* the params of a call and its call.                                      *)
C25_CallLowering ==
    (Generated /\ Calls(prog) # {}) =>
        /\ pc = "opt"
        /\ \A i \in {j \in 1..Len(gencode) : IsCall(gencode[j])} :
              \E n \in ArgumentCounts(gencode[i].a1) :
                 /\ Cardinality(NearestBefore(i, n)) = n
                 /\ \A j \in NearestBefore(i, n) : IsParam(gencode[j])

(* the operand that an instruction writes its result to: the last operand  *)
(* of the instructions that produce a value                                *)
ResultOf(inst) ==
    IF \/ startswith(inst.op, "literal") \/ startswith(inst.op, "load")
       \/ startswith(inst.op, "call") \/ startswith(inst.op, "not_")
       \/ startswith(inst.op, "sitofp") \/ startswith(inst.op, "fptosi")
    THEN {inst.a2}
    ELSE IF startswith(inst.op, "elem") \/ is_binary_op(inst) THEN {inst.a3}
    ELSE {}

(* the number of the function that position i of the emitted code is in *)
FunctionAt(i) ==
    Cardinality({j \in 1..i : startswith(gencode[j].op, "define")})

(* the names new_temp can have returned for code of this length *)
NumberedTemps == {"%" \o ToString(n) : n \in 1..(3 * Len(gencode))}

(* C26: in the emitted code of a function every numbered temporary %<n> is *)
(* the result operand of at most one instruction, the temporaries that     *)
(* accumulate the offset of a multi-dimensional array reference included.  *)
C26_SingleAssignmentTemporaries ==
    pc = "opt" =>
        \A i, j \in 1..Len(gencode) :
           (i < j /\ FunctionAt(i) = FunctionAt(j)) =>
               ResultOf(gencode[i]) \cap ResultOf(gencode[j]) \cap NumberedTemps = {}

RECURSIVE References(_)
(* the references a[i1][i2] at or below node *)
References(node) ==
    IF node.k = "ArrayRef" /\ node.id.k = "ArrayRef" THEN {node}
    ELSE LET kids == children(node) IN UNION {References(kids[i][2]) : i \in 1..Len(kids)}

(* the sizes d1, d2 of the array that the function declares in its own     *)
(* block, which is the declaration every reference of the programs         *)
(* resolves to                                                             *)
DeclaredSizes(f, name) ==
    LET ds == f.compound_statement.decls
        d == ds[CHOOSE i \in 1..Len(ds) : ds[i].name = name]
        parts == Tail(split(d.dim, "_"))
    IN [k \in 1..Len(parts) |-> int(parts[k])]

(* the value of an index expression: a literal, or a variable in its slot *)
IndexValue(m, e) == IF e.k = "Constant" THEN e.value ELSE read(m, "%" \o e.name)

(* i1 * d2 + i2 *)
ExpectedOffset(m, f, r) ==
    IndexValue(m, r.id.pos) * DeclaredSizes(f, _get_name(r))[2] + IndexValue(m, r.pos)

(* C27: a reference a[i1][i2] is lowered to exactly one elem_<T>, followed *)
(* by the load_<T>_* of its result, and when the machine reaches the elem  *)
(* its offset operand holds i1 * d2 + i2 for the sizes d1, d2 of the       *)
(* declaration the reference resolves to, also when a block declares an    *)
(* array of the same name with other sizes.                                *)
C27_MultiDimensionalOffset ==
    \A f \in {prog.gdecls[i] : i \in {j \in 1..Len(prog.gdecls) : prog.gdecls[j].k = "FuncDef"}} :
       \A r \in References(f) :
          /\ pc = "opt" =>
                LET elems == {i \in 1..Len(gencode) : startswith(gencode[i].op, "elem_")}
                IN /\ Cardinality(elems) = Cardinality(References(prog))
                   /\ \A i \in elems :
                         /\ i < Len(gencode)
                         /\ gencode[i + 1].op = "load_" \o r.uc_type \o "_*"
                         /\ gencode[i + 1].a1 = gencode[i].a3
          /\ (/\ pc = "run"
              /\ vm_gen.status = "run"
              /\ vm_gen.ip \in 1..Len(gencode)
              /\ startswith(gencode[vm_gen.ip].op, "elem_"))
                => read(vm_gen, gencode[vm_gen.ip].a2) = ExpectedOffset(vm_gen, f, r)

(* the label that opens the body of a loop *)
IsBodyLabel(op) == startswith(op, "while.stat") \/ startswith(op, "for.stat")

(* what follows the name of the body label: the version and the colon *)
LabelVersion(op) ==
    IF startswith(op, "while.stat") THEN SubSeq(op, Len("while.stat") + 1, Len(op))
    ELSE SubSeq(op, Len("for.stat") + 1, Len(op))

(* the label emitted right behind the body of the loop: the end label of a *)
(* while, the increment label of a for                                     *)
BodyCloseLabel(op) ==
    IF startswith(op, "while.stat") THEN "while.end" \o LabelVersion(op)
    ELSE "for.inc" \o LabelVersion(op)

(* the jump target that names the end label of the loop *)
EndTarget(op) ==
    LET v == LabelVersion(op)
    IN (IF startswith(op, "while.stat") THEN "%while.end" ELSE "%for.end")
          \o SubSeq(v, 1, Len(v) - 1)

(* the positions of the body labels of the loops whose body holds position p *)
EnclosingLoops(p) ==
    {o \in 1..(p - 1) :
        /\ IsBodyLabel(gencode[o].op)
        /\ \E c \in (p + 1)..Len(gencode) : gencode[c].op = BodyCloseLabel(gencode[o].op)}

(* the jumps to the end label of a loop: only a break emits them *)
BreakJumps ==
    {p \in 1..Len(gencode) :
        /\ gencode[p].op = "jump"
        /\ startswith(gencode[p].a1, "%while.end") \/ startswith(gencode[p].a1, "%for.end")}

(* C28: every break of the program emits one jump, the jump lies in the    *)
(* body of a loop and names the end label of the innermost loop around it, *)
(* for breaks in a nested loop and for breaks of the outer loop ahead of   *)
(* and behind the nested loop; and the loop stack is empty again when      *)
(* visit_Program returns.                                                  *)
C28_BreakTarget ==
    pc = "opt" =>
        /\ Cardinality(BreakJumps) = Cardinality(BreakPaths(prog, <<>>))
        /\ \A p \in BreakJumps :
              /\ EnclosingLoops(p) # {}
              /\ gencode[p].a1 = EndTarget(gencode[Max(EnclosingLoops(p))].op)
        /\ visit_Program_code(CodeGenerator, prog).loop_pile = <<>>

(* a break of the inner loop, and behind the inner loop a break of the     *)
(* outer loop                                                              *)
C28_Witness ==
    /\ pc = "opt"
    /\ \E p, q \in BreakJumps :
          /\ p < q
          /\ Cardinality(EnclosingLoops(p)) = 2
          /\ Cardinality(EnclosingLoops(q)) = 1
          /\ gencode[p].a1 # gencode[q].a1

(* the instruction that constant_propagation has just replaced, if any *)
Rewritten == pc = "cp" /\ bb # None /\ labeled_code' # labeled_code

(* C29: whenever constant_propagation rewrites an instruction, it was a    *)
(* load_<T> %x %t and it becomes literal_<T> v %t with T one of int, float *)
(* and char: the same type suffix, the same target, and for v the value of *)
(* a literal_<T> of the function.                                          *)
C29_PropagationRewriteShape ==
    [][Rewritten =>
          LET old == labeled_code[key]
              new == labeled_code'[key]
          IN /\ startswith(old.op, "load_")
             /\ new.op \in {"literal_int", "literal_float", "literal_char"}
             /\ new.op = "literal_" \o SubSeq(old.op, Len("load_") + 1, Len(old.op))
             /\ new.a2 = old.a2
             /\ \E i \in DOMAIN labeled_code :
                   labeled_code[i].op = new.op /\ labeled_code[i].val = new.val]_vars

(* C30: between two global declarations of a program that has not been     *)
(* rejected only the scope of the Program is open, whatever function       *)
(* definitions, prototypes, compounds, ifs and loops have been visited;    *)
(* and when visit_Program has returned no scope is open and no name is     *)
(* bound.                                                                  *)
C30_ScopeBalance ==
    /\ (pc = "sema" /\ gdecl >= 1) => Len(sema.symtab.scope) = 1
    /\ pc = "analysed" =>
          /\ sema.symtab.scope = <<>>
          /\ \A n \in DOMAIN sema.symtab.table : sema.symtab.table[n] = <<>>

====
